---------------------------- MODULE Spec2Model ----------------------------
(***************************************************************************)
(* A model of the RealEstate class of EstateFinder (Scripts/RealEstate.py):*)
(* address normalisation and query variants, geocoding with fallback over  *)
(* the variants, acquisition and grouping of nearby OSM objects, and the   *)
(* cohort loop of compute_stats.                                           *)
(*                                                                         *)
(* Strings are sequences of one-character strings.  The module is ASCII    *)
(* only, so every Cyrillic letter of the source is written as one Latin    *)
(* stand-in letter, in alphabet order a b v d e z i j k l m n o p r s t u  *)
(* h c w x q y g (w: sha, x: shcha, q: soft sign, y: yery, g: ya), with    *)
(* the capitals for the capitals, and the bullet sign as "*".  The regular *)
(* expressions of the source are modelled character by character.          *)
(***************************************************************************)
EXTENDS Integers, Sequences, FiniteSets, TLC

(***************************************************************************)
(* Character classes of Python's re module, on the model's alphabet.       *)
(***************************************************************************)
WhiteSpace == {" ", "\t"}

NonWordChars == {" ", "\t", ",", ".", "-", "(", ")", "*"}

IsWord(c) == c \notin NonWordChars

UpperChars == <<"A","B","C","D","E","F","G","H","I","J","K","L","M",
                "N","O","P","Q","R","S","T","U","V","W","X","Y","Z">>

LowerChars == <<"a","b","c","d","e","f","g","h","i","j","k","l","m",
                "n","o","p","q","r","s","t","u","v","w","x","y","z">>

\* re.IGNORECASE compares the case-folded characters.
Lower(c) ==
    IF \E i \in 1..Len(UpperChars) : UpperChars[i] = c
    THEN LowerChars[CHOOSE i \in 1..Len(UpperChars) : UpperChars[i] = c]
    ELSE c

\* The literal lit occurs in s at position i (ci: ignoring case).
MatchAt(s, i, lit, ci) ==
    /\ i >= 1
    /\ i + Len(lit) - 1 <= Len(s)
    /\ \A k \in 1..Len(lit) :
          (IF ci THEN Lower(s[i + k - 1]) ELSE s[i + k - 1]) = lit[k]

\* The first position at or after i that holds no whitespace (Len(s)+1 if none).
RECURSIVE SkipSpace(_, _)
SkipSpace(s, i) ==
    IF i <= Len(s) /\ s[i] \in WhiteSpace THEN SkipSpace(s, i + 1) ELSE i

(***************************************************************************)
(* _normalize_address, step 1: re.split(markers, addr, 1)[0].              *)
(* The alternatives are \s+m\. | \s+metro | \s+r-?n | \s+rajon | \s+* | \( *)
(* (metro mark, "metro", district abbreviation, "district", bullet,        *)
(* opening parenthesis); the split is case sensitive.                      *)
(***************************************************************************)
SpaceMarkers == { <<"m", ".">>, <<"m","e","t","r","o">>, <<"r","n">>,
                  <<"r","-","n">>, <<"r","a","j","o","n">>, <<"*">> }

MarkerAt(s, i) ==
    \/ s[i] = "("
    \/ /\ s[i] \in WhiteSpace
       /\ \E lit \in SpaceMarkers : MatchAt(s, SkipSpace(s, i), lit, FALSE)

TruncateAtMarker(s) ==
    IF \E i \in 1..Len(s) : MarkerAt(s, i)
    THEN LET first == CHOOSE i \in 1..Len(s) :
                          /\ MarkerAt(s, i)
                          /\ \A j \in 1..(i - 1) : ~MarkerAt(s, j)
         IN  SubSeq(s, 1, first - 1)
    ELSE s

(***************************************************************************)
(* Step 2: the table reps, applied in order with re.sub(..., IGNORECASE).  *)
(* Each pattern is \b + literal (+ an optional dot for "prosp").           *)
(***************************************************************************)
Reps == <<
    [lit |-> <<"u","l",".">>,         optDot |-> FALSE,
     repl |-> <<"u","l","i","c","a">>],
    [lit |-> <<"p","e","r",".">>,     optDot |-> FALSE,
     repl |-> <<"p","e","r","e","u","l","o","k">>],
    [lit |-> <<"p","r","o","s","p">>, optDot |-> TRUE,
     repl |-> <<"p","r","o","s","p","e","k","t">>],
    [lit |-> <<"p","r","-","t">>,     optDot |-> FALSE,
     repl |-> <<"p","r","o","s","p","e","k","t">>],
    [lit |-> <<"n","a","b",".">>,     optDot |-> FALSE,
     repl |-> <<"n","a","b","e","r","e","z","n","a","g">>],
    [lit |-> <<"w",".">>,             optDot |-> FALSE,
     repl |-> <<"w","o","s","s","e">>],
    [lit |-> <<"p","l",".">>,         optDot |-> FALSE,
     repl |-> <<"p","l","o","x","a","d","q">>]
>>

\* \b before position i, where s[i] is a word character.
BoundaryBefore(s, i) == i = 1 \/ ~IsWord(s[i - 1])

RECURSIVE SubFrom(_, _, _)
SubFrom(s, i, rep) ==
    IF i > Len(s) THEN << >>
    ELSE IF BoundaryBefore(s, i) /\ MatchAt(s, i, rep.lit, TRUE)
         THEN LET after == i + Len(rep.lit)
                  dot   == IF rep.optDot /\ after <= Len(s) /\ s[after] = "."
                           THEN 1 ELSE 0
              IN  rep.repl \o SubFrom(s, after + dot, rep)
         ELSE <<s[i]>> \o SubFrom(s, i + 1, rep)

RECURSIVE ExpandFrom(_, _)
ExpandFrom(s, k) ==
    IF k > Len(Reps) THEN s ELSE ExpandFrom(SubFrom(s, 1, Reps[k]), k + 1)

ExpandAbbreviations(s) == ExpandFrom(s, 1)

(***************************************************************************)
(* Step 3: re.sub(\s+, " "), re.sub(",\s*,", ","), strip(" ,").            *)
(***************************************************************************)
RECURSIVE CollapseSpaceFrom(_, _)
CollapseSpaceFrom(s, i) ==
    IF i > Len(s) THEN << >>
    ELSE IF s[i] \in WhiteSpace
         THEN <<" ">> \o CollapseSpaceFrom(s, SkipSpace(s, i))
         ELSE <<s[i]>> \o CollapseSpaceFrom(s, i + 1)

CollapseSpace(s) == CollapseSpaceFrom(s, 1)

RECURSIVE CollapseCommasFrom(_, _)
CollapseCommasFrom(s, i) ==
    IF i > Len(s) THEN << >>
    ELSE LET j == SkipSpace(s, i + 1)
         IN  IF s[i] = "," /\ j <= Len(s) /\ s[j] = ","
             THEN <<",">> \o CollapseCommasFrom(s, j + 1)
             ELSE <<s[i]>> \o CollapseCommasFrom(s, i + 1)

CollapseCommas(s) == CollapseCommasFrom(s, 1)

\* str.strip(chars): drop the characters of chars from both ends.
RECURSIVE StripLeft(_, _)
StripLeft(s, chars) ==
    IF s # << >> /\ Head(s) \in chars THEN StripLeft(Tail(s), chars) ELSE s

RECURSIVE StripRight(_, _)
StripRight(s, chars) ==
    IF s # << >> /\ s[Len(s)] \in chars
    THEN StripRight(SubSeq(s, 1, Len(s) - 1), chars)
    ELSE s

Strip(s, chars) == StripRight(StripLeft(s, chars), chars)

NormalizeAddress(addr) ==
    Strip(CollapseCommas(CollapseSpace(ExpandAbbreviations(
              TruncateAtMarker(addr)))), {" ", ","})

(***************************************************************************)
(* _make_query_variants.                                                   *)
(***************************************************************************)
\* str.split(","): the segments between the commas, empty ones included.
RECURSIVE SplitComma(_, _, _)
SplitComma(s, i, cur) ==
    IF i > Len(s) THEN <<cur>>
    ELSE IF s[i] = "," THEN <<cur>> \o SplitComma(s, i + 1, << >>)
         ELSE SplitComma(s, i + 1, Append(cur, s[i]))

\* [p.strip() for p in clean.split(",") if p.strip()]
Parts(clean) ==
    LET segs == SplitComma(clean, 1, << >>)
        trimmed == [k \in 1..Len(segs) |-> Strip(segs[k], WhiteSpace)]
    IN  SelectSeq(trimmed, LAMBDA p : p # << >>)

\* ", ".join(parts)
RECURSIVE Join(_)
Join(parts) ==
    IF parts = << >> THEN << >>
    ELSE IF Len(parts) = 1 THEN parts[1]
         ELSE parts[1] \o <<",", " ">> \o Join(Tail(parts))

\* Variant that keeps the last occurrence of a string, not the first.
RECURSIVE UniqKeepsLast(_)
UniqKeepsLast(vs) ==
    IF vs = << >> THEN << >>
    ELSE LET rest == UniqKeepsLast(Tail(vs))
         IN  IF \E k \in 2..Len(vs) : vs[k] = Head(vs)
             THEN rest ELSE <<Head(vs)>> \o rest

\* The loop over variants with the set seen: first occurrences, in order.
RECURSIVE Uniq(_)
Uniq(vs) ==
    IF vs = << >> THEN << >>
    ELSE LET front == Uniq(SubSeq(vs, 1, Len(vs) - 1))
             last  == vs[Len(vs)]
         IN  IF \E k \in 1..Len(front) : front[k] = last
             THEN front ELSE Append(front, last)

\* Variant with the threshold off by one: four variants from four parts on.
RawVariantsFromFour(addr) ==
    LET clean == NormalizeAddress(addr)
        parts == Parts(clean)
    IN  IF Len(parts) > 3
        THEN LET street_house == Join(SubSeq(parts, 1, 2))
                 city == parts[3]
             IN  << clean, street_house \o <<",", " ">> \o city,
                    street_house, addr >>
        ELSE << clean, addr >>

RawVariants(addr) ==
    LET clean == NormalizeAddress(addr)
        parts == Parts(clean)
    IN  IF Len(parts) >= 3
        THEN LET street_house == Join(SubSeq(parts, 1, 2))
                 city == parts[3]
             IN  << clean, street_house \o <<",", " ">> \o city,
                    street_house, addr >>
        ELSE << clean, addr >>

MakeQueryVariants(addr) == Uniq(RawVariants(addr))

\* Addresses of the records: none; one whose four variants all differ;
\* one with two variants.
AddressBook == <<
    << >>,
    <<" ","a",",","b",",","c">>,
    <<"u","l","."," ","a">> >>

AddressOf(r) == AddressBook[((r - 1) % Len(AddressBook)) + 1]

\* lru_cache around _make_query_variants.  The cache maps each address of
\* the records to its variants, or to the empty list while the address has
\* not been looked up (no list of variants is empty).  The records have
\* fewer addresses than maxsize, so no entry is ever evicted.
EmptyCache == [a \in { AddressBook[k] : k \in 1..Len(AddressBook) } |-> << >>]

CachedQueryVariants(memo, a) ==
    IF memo[a] # << >> THEN memo[a] ELSE MakeQueryVariants(a)


(***************************************************************************)
(* The record.  Python's None is the empty tuple, which no pair of          *)
(* coordinates equals.  nearby_grouped_objects is no field of the          *)
(* dataclass: the attribute exists only once fetch_nearby_objects or       *)
(* compute_stats has set it, which has_grouped records.  An empty address  *)
(* stands for both None and "".                                            *)
(***************************************************************************)
None == << >>

NumRecords == 2

Records == 1..NumRecords

\* (lat, lon) pairs the geocoder may return.
Points == { <<1, 11>>, <<2, 12>> }

VARIABLES
    address,                  \* address of each record
    coords,                   \* coords of each record: None or a Point
    nearby_objects,           \* nearby_objects of each record
    has_grouped,              \* the attribute nearby_grouped_objects exists
    nearby_grouped_objects,   \* the dict, as the sequence of its entries
    geocoded,                 \* history: a lookup for the record has matched
    cache,                    \* the lru_cache of _make_query_variants
    pc,                       \* "idle", or "compute_stats" inside its loop
    est,                      \* compute_stats: index of the next member
    call,                     \* the last call: arguments, service replies, result
    addr,                     \* _make_query_variants alone: the argument
    variants,                 \* _make_query_variants alone: None or the result
    stats,                    \* the baselines the caller holds
    estates                   \* scoring alone: the cohort of the baselines

vars == << address, coords, nearby_objects, has_grouped,
           nearby_grouped_objects, geocoded, cache, pc, est, call, addr,
           variants, stats, estates >>

recordVars == << address, coords, nearby_objects, has_grouped,
                 nearby_grouped_objects, geocoded >>


(***************************************************************************)
(* geocode_address.  The geocoding service is an oracle: its reply to the  *)
(* k-th lookup of a call is a location (a match), "no match" (geocode      *)
(* returns None) or "unavailable" (GeocoderServiceError or                 *)
(* GeocoderUnavailable is raised).  Outcomes carry the names of the kinds  *)
(* of failure: InvalidInput and NoMatch are the two ValueErrors,           *)
(* ServiceUnavailable is the ConnectionError.                              *)
(***************************************************************************)
Location(p) == [status |-> "match", latitude |-> p[1], longitude |-> p[2]]

GeoReplies ==
    { Location(p) : p \in Points }
        \cup { [status |-> st, latitude |-> 0, longitude |-> 0] :
                  st \in {"no match", "unavailable"} }

\* Variant with the flag inverted: the stored pair is returned when forced.
ReturnsStoredWhenForced(c, force) == c # None /\ force

\* if self.coords and not force: return self.coords
ReturnsStored(c, force) == c # None /\ ~force

\* Variant that leaves the loop after its first lookup whatever the reply.
GeocodeLoopFirstOnly(queries, oracle, k, issued) ==
    IF k > Len(queries)
    THEN [outcome |-> "NoMatch", loc |-> None, lookups |-> issued]
    ELSE LET log == Append(issued, queries[k])
             loc == oracle[k]
         IN  IF loc.status = "unavailable"
             THEN [outcome |-> "ServiceUnavailable", loc |-> None,
                   lookups |-> log]
             ELSE IF loc.status = "no match"
                  THEN [outcome |-> "NoMatch", loc |-> None, lookups |-> log]
                  ELSE [outcome |-> "ok",
                        loc |-> <<loc.latitude, loc.longitude>>,
                        lookups |-> log]

\* Variant that remembers the error and goes on to the next candidate
\* ("continue" where the code has "break").
RECURSIVE GeocodeLoopContinues(_, _, _, _)
GeocodeLoopContinues(queries, oracle, k, issued) ==
    IF k > Len(queries)
    THEN [outcome |-> IF \E j \in 1..Len(queries) :
                            oracle[j].status = "unavailable"
                      THEN "ServiceUnavailable" ELSE "NoMatch",
          loc |-> None, lookups |-> issued]
    ELSE LET log == Append(issued, queries[k])
             loc == oracle[k]
         IN  IF loc.status = "match"
             THEN [outcome |-> "ok",
                   loc |-> <<loc.latitude, loc.longitude>>,
                   lookups |-> log]
             ELSE GeocodeLoopContinues(queries, oracle, k + 1, log)

\* The for loop over the variants from candidate k on; issued is the list
\* of the queries handed to geo.geocode so far.
RECURSIVE GeocodeLoop(_, _, _, _)
GeocodeLoop(queries, oracle, k, issued) ==
    IF k > Len(queries)
    THEN [outcome |-> "NoMatch", loc |-> None, lookups |-> issued]
    ELSE LET log == Append(issued, queries[k])
             loc == oracle[k]
         IN  IF loc.status = "unavailable"
             THEN [outcome |-> "ServiceUnavailable", loc |-> None,
                   lookups |-> log]
             ELSE IF loc.status = "no match"
                  THEN GeocodeLoop(queries, oracle, k + 1, log)
                  ELSE [outcome |-> "ok",
                        loc |-> <<loc.latitude, loc.longitude>>,
                        lookups |-> log]

\* The method reaches the loop over the variants.
ReachesLoop(c, a, force) == ~ReturnsStored(c, force) /\ a # << >>

\* The candidates a call iterates, vs being the variants of the address:
\* none when it returns or raises before the loop.
Candidates(c, a, force, vs) ==
    IF ReachesLoop(c, a, force) THEN vs ELSE << >>

\* The cache after the call: the loop asks for the variants of the address.
CacheAfter(memo, c, a, force, vs) ==
    IF ReachesLoop(c, a, force) THEN [memo EXCEPT ![a] = vs] ELSE memo

\* Variant that forgets the stored pair before it looks the address up.
GeocodeAddressClearsFirst(c, a, force, oracle, vs) ==
    IF ReturnsStored(c, force)
    THEN [outcome |-> "ok", ret |-> c, coords |-> c, lookups |-> << >>]
    ELSE IF a = << >>
         THEN [outcome |-> "InvalidInput", ret |-> None, coords |-> None,
               lookups |-> << >>]
         ELSE LET run == GeocodeLoop(vs, oracle, 1, << >>)
              IN  [outcome |-> run.outcome, ret |-> run.loc,
                   coords |-> run.loc, lookups |-> run.lookups]

\* The whole method on a record with coords c and address a, vs being what
\* _make_query_variants returns for a: the outcome, the value returned,
\* self.coords afterwards and the lookups issued.
GeocodeAddress(c, a, force, oracle, vs) ==
    IF ReturnsStored(c, force)
    THEN [outcome |-> "ok", ret |-> c, coords |-> c, lookups |-> << >>]
    ELSE IF a = << >>
         THEN [outcome |-> "InvalidInput", ret |-> None, coords |-> c,
               lookups |-> << >>]
         ELSE LET run == GeocodeLoop(vs, oracle, 1, << >>)
              IN  [outcome |-> run.outcome, ret |-> run.loc,
                   coords |-> IF run.outcome = "ok" THEN run.loc ELSE c,
                   lookups |-> run.lookups]

\* The replies of the service to a call with n candidates.  A reply after
\* the one that ends the loop is never asked for: Oracles(n, TRUE) holds
\* every sequence of n replies, Oracles(n, FALSE) only those that say
\* "no match" after the first reply that is a match or "unavailable".
Oracles(n, all_tails) ==
    { o \in [1..n -> GeoReplies] :
        all_tails \/ \A j, k \in 1..n :
                        j < k /\ o[j].status # "no match"
                            => o[k].status = "no match" }

\* The issued lookups of a call that returned a match.
Matched(oracle, lookups) ==
    \E k \in 1..Len(lookups) : oracle[k].status = "match"

(***************************************************************************)
(* fetch_nearby_objects.  Tag keys and values are strings (sequences of    *)
(* characters); a tag mapping is a function from keys to values.  The      *)
(* reply of api.query has status "TooManyRequests"                         *)
(* (OverpassTooManyRequests is raised), "error" (any other exception) or   *)
(* "ok" (a result with nodes, ways and relations).  Outcomes: InvalidInput *)
(* is the ValueError, Throttled the ConnectionError, QueryFailed the       *)
(* RuntimeError.                                                           *)
(***************************************************************************)
PriorityKeys == <<
    <<"a","m","e","n","i","t","y">>,
    <<"s","h","o","p">>,
    <<"b","u","i","l","d","i","n","g">>,
    <<"h","i","g","h","w","a","y">>,
    <<"l","e","i","s","u","r","e">>,
    <<"t","o","u","r","i","s","m">>,
    <<"p","u","b","l","i","c","_","t","r","a","n","s","p","o","r","t">>,
    <<"o","f","f","i","c","e">> >>

Other == <<"o","t","h","e","r">>

\* primary_tag: the first key of the list that is in tags, from index k on.
RECURSIVE PrimaryTagFrom(_, _)
PrimaryTagFrom(tags, k) ==
    IF k > Len(PriorityKeys) THEN Other
    ELSE IF PriorityKeys[k] \in DOMAIN tags
         THEN PriorityKeys[k] \o <<"=">> \o tags[PriorityKeys[k]]
         ELSE PrimaryTagFrom(tags, k + 1)

\* Variant in which a later key of the list overrides an earlier one.
PrimaryTagLowest(tags) ==
    LET found == { k \in 1..Len(PriorityKeys) : PriorityKeys[k] \in DOMAIN tags }
    IN  IF found = {} THEN Other
        ELSE LET k == CHOOSE m \in found : \A n \in found : n <= m
             IN  PriorityKeys[k] \o <<"=">> \o tags[PriorityKeys[k]]

PrimaryTag(tags) == PrimaryTagFrom(tags, 1)

\* Truth value of a dict or a list: it is not empty.
Truthy(x) == DOMAIN x # {}

NodeObject(node) ==
    [type |-> "node", id |-> node.id, lat |-> node.lat, lon |-> node.lon,
     tags |-> node.tags]

WayObject(way) ==
    [type |-> "way", id |-> way.id,
     nodes |-> [k \in 1..Len(way.nodes) |->
                   <<way.nodes[k].lat, way.nodes[k].lon>>],
     tags |-> way.tags]

RelationObject(rel) == [type |-> "relation", id |-> rel.id, tags |-> rel.tags]

\* The three loops that fill raw.
RECURSIVE KeptNodes(_)
KeptNodes(nodes) ==
    IF nodes = << >> THEN << >>
    ELSE (IF Truthy(Head(nodes).tags) THEN <<NodeObject(Head(nodes))>>
          ELSE << >>) \o KeptNodes(Tail(nodes))

\* Variant that keeps every tagged way, with vertices or without.
RECURSIVE KeptWaysTagged(_)
KeptWaysTagged(ways) ==
    IF ways = << >> THEN << >>
    ELSE (IF Truthy(Head(ways).tags) THEN <<WayObject(Head(ways))>>
          ELSE << >>) \o KeptWaysTagged(Tail(ways))

RECURSIVE KeptWays(_)
KeptWays(ways) ==
    IF ways = << >> THEN << >>
    ELSE (IF Truthy(Head(ways).tags) /\ Truthy(Head(ways).nodes)
          THEN <<WayObject(Head(ways))>>
          ELSE << >>) \o KeptWays(Tail(ways))

RECURSIVE KeptRelations(_)
KeptRelations(rels) ==
    IF rels = << >> THEN << >>
    ELSE (IF Truthy(Head(rels).tags) THEN <<RelationObject(Head(rels))>>
          ELSE << >>) \o KeptRelations(Tail(rels))

RawObjects(result) ==
    KeptNodes(result.nodes) \o KeptWays(result.ways)
        \o KeptRelations(result.relations)

\* Variant on a dict that puts a new key before the others.
AppendToGroupFront(grouped, label, obj) ==
    IF \E k \in 1..Len(grouped) : grouped[k].label = label
    THEN [k \in 1..Len(grouped) |->
            IF grouped[k].label = label
            THEN [label |-> label, objects |-> Append(grouped[k].objects, obj)]
            ELSE grouped[k]]
    ELSE <<[label |-> label, objects |-> <<obj>>]>> \o grouped

\* grouped[label].append(obj) on a dict that keeps insertion order: the
\* dict is the sequence of its entries.
AppendToGroup(grouped, label, obj) ==
    IF \E k \in 1..Len(grouped) : grouped[k].label = label
    THEN [k \in 1..Len(grouped) |->
            IF grouped[k].label = label
            THEN [label |-> label, objects |-> Append(grouped[k].objects, obj)]
            ELSE grouped[k]]
    ELSE Append(grouped, [label |-> label, objects |-> <<obj>>])

RECURSIVE GroupFrom(_, _, _)
GroupFrom(raw, k, grouped) ==
    IF k > Len(raw) THEN grouped
    ELSE GroupFrom(raw, k + 1,
                   AppendToGroup(grouped, PrimaryTag(raw[k].tags), raw[k]))

GroupByPrimaryTag(raw) == GroupFrom(raw, 1, << >>)

\* Variant whose general handler comes first and catches the rate limit.
FetchNearbyObjectsCatchAll(c, objs, has, groups, reply) ==
    IF c = None
    THEN [outcome |-> "InvalidInput", queries |-> 0, objects |-> objs,
          has |-> has, grouped |-> groups, ret |-> None]
    ELSE IF reply.status \in {"TooManyRequests", "error"}
         THEN [outcome |-> "QueryFailed", queries |-> 1, objects |-> objs,
               has |-> has, grouped |-> groups, ret |-> None]
         ELSE LET raw == RawObjects(reply)
              IN  [outcome |-> "ok", queries |-> 1, objects |-> raw,
                   has |-> TRUE, grouped |-> GroupByPrimaryTag(raw),
                   ret |-> raw]

\* The whole method on a record with coords c, nearby_objects objs and
\* nearby_grouped_objects groups (has: the attribute exists): the outcome,
\* the number of calls of api.query, the attributes afterwards and the
\* value returned.
FetchNearbyObjects(c, objs, has, groups, reply) ==
    IF c = None
    THEN [outcome |-> "InvalidInput", queries |-> 0, objects |-> objs,
          has |-> has, grouped |-> groups, ret |-> None]
    ELSE IF reply.status = "TooManyRequests"
         THEN [outcome |-> "Throttled", queries |-> 1, objects |-> objs,
               has |-> has, grouped |-> groups, ret |-> None]
         ELSE IF reply.status = "error"
              THEN [outcome |-> "QueryFailed", queries |-> 1, objects |-> objs,
                    has |-> has, grouped |-> groups, ret |-> None]
              ELSE LET raw == RawObjects(reply)
                   IN  [outcome |-> "ok", queries |-> 1, objects |-> raw,
                        has |-> TRUE, grouped |-> GroupByPrimaryTag(raw),
                        ret |-> raw]


(***************************************************************************)
(* Numbers.  The floats of the source are modelled as exact reals.  A      *)
(* rational is a pair <<n, d>> in lowest terms with d > 0.  A real is a    *)
(* finite sum of rational multiples of square roots: the function from     *)
(* each square-free radicand to its coefficient, which is not zero (a      *)
(* rational q is the function 1 :> q, zero is the empty function).  The    *)
(* reals of the model are the field the means and the sample standard      *)
(* deviations of rationals live in.                                        *)
(***************************************************************************)
Abs(n) == IF n < 0 THEN -n ELSE n

RECURSIVE GCD(_, _)
GCD(a, b) == IF b = 0 THEN a ELSE GCD(b, a % b)

\* The rational n/d, for d # 0.
Q(n, d) ==
    LET g == GCD(Abs(n), Abs(d))
        s == IF d < 0 THEN -1 ELSE 1
    IN  <<(s * n) \div g, (s * d) \div g>>

QAdd(a, b) == Q(a[1] * b[2] + b[1] * a[2], a[2] * b[2])

QSub(a, b) == Q(a[1] * b[2] - b[1] * a[2], a[2] * b[2])

QMul(a, b) == Q(a[1] * b[1], a[2] * b[2])

\* a / b, for b # 0.
QDiv(a, b) == Q(a[1] * b[2], a[2] * b[1])

QLess(a, b) == a[1] * b[2] < b[1] * a[2]

\* The largest s whose square divides n, for n >= 1.
SquarePart(n) ==
    LET S == { s \in 1..n : s * s <= n /\ n % (s * s) = 0 }
    IN  CHOOSE s \in S : \A t \in S : t <= s

\* n without its square part.
Radicand(n) == n \div (SquarePart(n) * SquarePart(n))

Zero == [k \in {} |-> <<0, 1>>]

Real(q) == [k \in (IF q[1] = 0 THEN {} ELSE {1}) |-> q]

Coef(x, k) == IF k \in DOMAIN x THEN x[k] ELSE <<0, 1>>

RAdd(x, y) ==
    LET D == DOMAIN x \cup DOMAIN y
    IN  [k \in { j \in D : QAdd(Coef(x, j), Coef(y, j))[1] # 0 } |->
            QAdd(Coef(x, k), Coef(y, k))]

RScale(q, x) == [k \in (IF q[1] = 0 THEN {} ELSE DOMAIN x) |-> QMul(q, x[k])]

RNeg(x) == RScale(<<-1, 1>>, x)

RSub(x, y) == RAdd(x, RNeg(y))

\* The square root of the rational q >= 0: sqrt(n/d) = sqrt(n*d)/d.
RSqrt(q) ==
    [k \in (IF q[1] = 0 THEN {} ELSE {Radicand(q[1] * q[2])}) |->
        Q(SquarePart(q[1] * q[2]), q[2])]

\* x / y for a y of one term c*sqrt(m): each term a*sqrt(k) of x gives
\* (a / (c*m)) * sqrt(k*m), and distinct k give distinct radicands.
RDiv(x, y) ==
    LET m == CHOOSE j \in DOMAIN y : TRUE
        c == y[m]
    IN  [r \in { Radicand(k * m) : k \in DOMAIN x } |->
            LET k == CHOOSE j \in DOMAIN x : Radicand(j * m) = r
            IN  QMul(QDiv(x[k], QMul(c, <<m, 1>>)),
                     <<SquarePart(k * m), 1>>)]

\* x >= 0 shown term by term: every coefficient is positive.
RNonNeg(x) == \A k \in DOMAIN x : x[k][1] > 0

RLeq(x, y) == RNonNeg(RSub(y, x))

\* statistics.mean and statistics.stdev (the sample deviation, n - 1) of a
\* list of rationals.
RECURSIVE QSum(_)
QSum(arr) == IF arr = << >> THEN <<0, 1>> ELSE QAdd(Head(arr), QSum(Tail(arr)))

Mean(arr) == QDiv(QSum(arr), <<Len(arr), 1>>)

SquaredDeviations(arr) ==
    QSum([k \in 1..Len(arr) |->
             QMul(QSub(arr[k], Mean(arr)), QSub(arr[k], Mean(arr)))])

\* The deviation of the population: the squared deviations over n.
StdevPopulation(arr) ==
    RSqrt(QDiv(SquaredDeviations(arr), <<Len(arr), 1>>))

Stdev(arr) == RSqrt(QDiv(SquaredDeviations(arr), <<Len(arr) - 1, 1>>))

\* safe with the default deviation also in place of a deviation of 0.
SafeNeverZero(arr) ==
    << IF arr # << >> THEN Real(Mean(arr)) ELSE Zero,
       IF Len(arr) > 1 /\ Stdev(arr) # Zero THEN Stdev(arr)
       ELSE Real(<<1, 1>>) >>

\* safe with 0 as the default deviation.
SafeZeroDefault(arr) ==
    << IF arr # << >> THEN Real(Mean(arr)) ELSE Zero,
       IF Len(arr) > 1 THEN Stdev(arr) ELSE Zero >>

\* safe(arr): the pair (mean, deviation) with the defaults 0 and 1.
Safe(arr) ==
    << IF arr # << >> THEN Real(Mean(arr)) ELSE Zero,
       IF Len(arr) > 1 THEN Stdev(arr) ELSE Real(<<1, 1>>) >>

(***************************************************************************)
(* The metrics of a member, as compute_stats and evaluate both compute     *)
(* them.  A member is the part of a record the two methods read: price and *)
(* total_area (0 for None), transport_nearby and extra_attributes (records *)
(* of the keys present) and nearby_grouped_objects.                        *)
(***************************************************************************)
\* str.startswith
StartsWith(s, prefix) ==
    Len(prefix) <= Len(s) /\ SubSeq(s, 1, Len(prefix)) = prefix

\* dict.get(key, 0)
Get(dict, key) == IF key \in DOMAIN dict THEN dict[key] ELSE 0

TransportPrefixes == { <<"p","u","b","l","i","c","_","t","r","a","n","s","p","o","r","t">> }

CompetitionPrefixes ==
    { <<"a","m","e","n","i","t","y","=","r","e","s","t","a","u","r","a","n","t">>,
      <<"a","m","e","n","i","t","y","=","c","a","f","e">>,
      <<"a","m","e","n","i","t","y","=","b","a","r">> }

InfrastructurePrefixes ==
    { <<"s","h","o","p","=">>, <<"o","f","f","i","c","e","=">>,
      <<"l","e","i","s","u","r","e","=">>, <<"a","m","e","n","i","t","y","=">>,
      <<"t","o","u","r","i","s","m","=">> }

\* sum(len(v) for k, v in grouped.items() if any(k.startswith(t) ...))
RECURSIVE CountFrom(_, _, _)
CountFrom(grouped, prefixes, k) ==
    IF k > Len(grouped) THEN 0
    ELSE (IF \E t \in prefixes : StartsWith(grouped[k].label, t)
          THEN Len(grouped[k].objects) ELSE 0)
         + CountFrom(grouped, prefixes, k + 1)

GroupCount(grouped, prefixes) == CountFrom(grouped, prefixes, 1)

\* est.price and est.total_area
HasPrice(m) == m.price # 0 /\ m.total_area # 0

RawPrice(m) == IF HasPrice(m) THEN Q(m.price, m.total_area) ELSE <<0, 1>>

RawTransport(m) ==
    <<Get(m.transport_nearby, "stops")
        + GroupCount(m.grouped, TransportPrefixes), 1>>

RawCompetition(m) == <<GroupCount(m.grouped, CompetitionPrefixes), 1>>

RawInfra(m) == <<GroupCount(m.grouped, InfrastructurePrefixes), 1>>

RawDemo(m) == <<Get(m.extra_attributes, "population_density"), 1>>

RawIncome(m) == <<Get(m.extra_attributes, "avg_income"), 1>>

\* The same three counts as compute_stats writes them for its lists.
MemberTransport(m) ==
    <<Get(m.transport_nearby, "stops")
        + GroupCount(m.grouped, TransportPrefixes), 1>>

MemberCompetition(m) == <<GroupCount(m.grouped, CompetitionPrefixes), 1>>

\* Variant whose infrastructure list leaves the amenities out.
MemberInfrastructureNoAmenity(m) ==
    <<GroupCount(m.grouped,
                 InfrastructurePrefixes
                    \ { <<"a","m","e","n","i","t","y","=">> }), 1>>

MemberInfrastructure(m) ==
    <<GroupCount(m.grouped, InfrastructurePrefixes), 1>>

(***************************************************************************)
(* compute_stats after its loop: the six lists and their baselines.        *)
(***************************************************************************)
Metrics ==
    {"price_psqm", "transport", "competition", "infrastructure",
     "population_density", "avg_income"}

\* Variant whose price list takes 0 from a member without price or area.
SamplesUnfiltered(cohort, metric) ==
    [k \in 1..Len(cohort) |->
        IF metric = "price_psqm" THEN RawPrice(cohort[k])
        ELSE IF metric = "transport" THEN MemberTransport(cohort[k])
        ELSE IF metric = "competition" THEN MemberCompetition(cohort[k])
        ELSE IF metric = "infrastructure"
             THEN MemberInfrastructure(cohort[k])
        ELSE IF metric = "population_density" THEN RawDemo(cohort[k])
        ELSE RawIncome(cohort[k])]

\* The list of the metric over the cohort: every member gives a value,
\* except to price, where only the members with a price and an area do.
Samples(cohort, metric) ==
    IF metric = "price_psqm"
    THEN LET priced == SelectSeq(cohort, HasPrice)
         IN  [k \in 1..Len(priced) |-> RawPrice(priced[k])]
    ELSE [k \in 1..Len(cohort) |->
            IF metric = "transport" THEN MemberTransport(cohort[k])
            ELSE IF metric = "competition" THEN MemberCompetition(cohort[k])
            ELSE IF metric = "infrastructure"
                 THEN MemberInfrastructure(cohort[k])
            ELSE IF metric = "population_density" THEN RawDemo(cohort[k])
            ELSE RawIncome(cohort[k])]

ComputeStats(cohort) == [metric \in Metrics |-> Safe(Samples(cohort, metric))]

(***************************************************************************)
(* evaluate: the eight scores.                                             *)
(***************************************************************************)
\* z that takes a stddev of 0 for 1.
ZZeroAsOne(raw, pair) ==
    IF pair[2] # Zero THEN RDiv(RSub(Real(raw), pair[1]), pair[2])
    ELSE RSub(Real(raw), pair[1])

\* z without the subtraction of the mean.
ZUncentred(raw, pair) ==
    IF pair[2] # Zero THEN RDiv(Real(raw), pair[2]) ELSE Zero

\* z = lambda raw, m: (raw - stats[m][0]) / stats[m][1] if stats[m][1] else 0
Z(raw, pair) ==
    IF pair[2] # Zero THEN RDiv(RSub(Real(raw), pair[1]), pair[2]) ELSE Zero

Tenths(n) == Q(n, 10)

\* The table with a demo weight of .1 in the profile "standard".
WeightsDemoInStandard ==
    [fast_food |->
        [top |-> [price |-> Tenths(5), location |-> Tenths(5)],
         sub |-> [transport |-> Tenths(5), competition |-> Tenths(2),
                  infrastructure |-> Tenths(2), demo |-> Tenths(1)]],
     premium |->
        [top |-> [price |-> Tenths(3), location |-> Tenths(7)],
         sub |-> [transport |-> Tenths(2), competition |-> Tenths(3),
                  infrastructure |-> Tenths(3), demo |-> Tenths(2)]],
     casual |->
        [top |-> [price |-> Tenths(4), location |-> Tenths(6)],
         sub |-> [transport |-> Tenths(3), competition |-> Tenths(3),
                  infrastructure |-> Tenths(3), demo |-> Tenths(1)]],
     standard |->
        [top |-> [price |-> Tenths(4), location |-> Tenths(6)],
         sub |-> [transport |-> Tenths(4), competition |-> Tenths(3),
                  infrastructure |-> Tenths(3), demo |-> Tenths(1)]]]

Weights ==
    [fast_food |->
        [top |-> [price |-> Tenths(5), location |-> Tenths(5)],
         sub |-> [transport |-> Tenths(5), competition |-> Tenths(2),
                  infrastructure |-> Tenths(2), demo |-> Tenths(1)]],
     premium |->
        [top |-> [price |-> Tenths(3), location |-> Tenths(7)],
         sub |-> [transport |-> Tenths(2), competition |-> Tenths(3),
                  infrastructure |-> Tenths(3), demo |-> Tenths(2)]],
     casual |->
        [top |-> [price |-> Tenths(4), location |-> Tenths(6)],
         sub |-> [transport |-> Tenths(3), competition |-> Tenths(3),
                  infrastructure |-> Tenths(3), demo |-> Tenths(1)]],
     standard |->
        [top |-> [price |-> Tenths(4), location |-> Tenths(6)],
         sub |-> [transport |-> Tenths(4), competition |-> Tenths(3),
                  infrastructure |-> Tenths(3), demo |-> Tenths(0)]]]

\* to_score = lambda x: 50 + 10 * x
ToScore(x) == RAdd(Real(<<50, 1>>), RScale(<<10, 1>>, x))

\* loc_z with the competition term subtracted: a second negation.
LocationZNegatedAgain(transport_z, comp_z, infra_z, demo_z, sub) ==
    RAdd(RAdd(RSub(RScale(sub.transport, transport_z),
                   RScale(sub.competition, comp_z)),
              RScale(sub.infrastructure, infra_z)),
         RScale(sub.demo, demo_z))

\* loc_z, from the four z-values and the sub-weights of the profile.
LocationZ(transport_z, comp_z, infra_z, demo_z, sub) ==
    RAdd(RAdd(RAdd(RScale(sub.transport, transport_z),
                   RScale(sub.competition, comp_z)),
              RScale(sub.infrastructure, infra_z)),
         RScale(sub.demo, demo_z))

CompositeZ(price_z, loc_z, top) ==
    RAdd(RScale(top.price, price_z), RScale(top.location, loc_z))

\* The dict evaluate returns for a member that has groups, the baselines
\* (stats) and a venue_type of the table.
Evaluate(m, baselines, venue_type) ==
    LET price_z == RNeg(Z(RawPrice(m), baselines["price_psqm"]))
        transport_z == Z(RawTransport(m), baselines["transport"])
        comp_z == RNeg(Z(RawCompetition(m), baselines["competition"]))
        infra_z == Z(RawInfra(m), baselines["infrastructure"])
        demo_z == Z(RawDemo(m), baselines["population_density"])
        income_z == Z(RawIncome(m), baselines["avg_income"])
        weights == Weights[venue_type]
        loc_z == LocationZ(transport_z, comp_z, infra_z, demo_z, weights.sub)
        composite_z == CompositeZ(price_z, loc_z, weights.top)
    IN  [price_score |-> ToScore(price_z),
         transport_score |-> ToScore(transport_z),
         competition_score |-> ToScore(comp_z),
         infrastructure_score |-> ToScore(infra_z),
         demographic_score |-> ToScore(demo_z),
         location_score |-> ToScore(loc_z),
         composite_score |-> ToScore(composite_z),
         income_score |-> ToScore(income_z)]

(***************************************************************************)
(* compute_stats, the loop over the cohort: one member per step.           *)
(***************************************************************************)
\* Variant that tests for the attribute alone: not hasattr(est, ...).
LacksGroupsAbsentOnly(has, groups) == ~has

\* not getattr(est, "nearby_grouped_objects", None)
LacksGroups(has, groups) == ~has \/ groups = << >>

\* Variant that calls est.geocode_address(force=True) whatever the coords.
MemberGeocodeAlways(c, a, oracle, vs) ==
    GeocodeAddress(c, a, TRUE, oracle, vs)

\* The geocoding part of the try block: est.geocode_address() when the
\* member has no coords, nothing otherwise.
MemberGeocode(c, a, oracle, vs) ==
    IF c = None THEN GeocodeAddress(c, a, FALSE, oracle, vs)
    ELSE [outcome |-> "ok", ret |-> c, coords |-> c, lookups |-> << >>]

\* The loop body without the assignment of the except branch.
EnrichMemberNoReset(c, a, objs, has, groups, oracle, reply, vs) ==
    IF ~LacksGroups(has, groups)
    THEN [outcome |-> "skipped", coords |-> c, objects |-> objs,
          has |-> has, grouped |-> groups, lookups |-> << >>, queries |-> 0]
    ELSE LET geo == MemberGeocode(c, a, oracle, vs)
         IN  IF geo.outcome # "ok"
             THEN [outcome |-> geo.outcome, coords |-> geo.coords,
                   objects |-> objs, has |-> has, grouped |-> groups,
                   lookups |-> geo.lookups, queries |-> 0]
             ELSE LET got == FetchNearbyObjects(geo.coords, objs, has, groups,
                                                reply)
                  IN  [outcome |-> got.outcome, coords |-> geo.coords,
                       objects |-> got.objects, has |-> got.has,
                       grouped |-> got.grouped,
                       lookups |-> geo.lookups, queries |-> got.queries]

\* The body of the loop for one member: the record's attributes afterwards,
\* what happened ("skipped" when the member already has groups), and the
\* external calls made.
EnrichMember(c, a, objs, has, groups, oracle, reply, vs) ==
    IF ~LacksGroups(has, groups)
    THEN [outcome |-> "skipped", coords |-> c, objects |-> objs,
          has |-> has, grouped |-> groups, lookups |-> << >>, queries |-> 0]
    ELSE LET geo == MemberGeocode(c, a, oracle, vs)
         IN  IF geo.outcome # "ok"
             THEN [outcome |-> geo.outcome, coords |-> geo.coords,
                   objects |-> objs, has |-> TRUE, grouped |-> << >>,
                   lookups |-> geo.lookups, queries |-> 0]
             ELSE LET got == FetchNearbyObjects(geo.coords, objs, has, groups,
                                                reply)
                  IN  [outcome |-> got.outcome, coords |-> geo.coords,
                       objects |-> got.objects, has |-> TRUE,
                       grouped |-> IF got.outcome = "ok" THEN got.grouped
                                   ELSE << >>,
                       lookups |-> geo.lookups, queries |-> got.queries]

(***************************************************************************)
(* evaluate: whether it returns the scores or raises.                      *)
(***************************************************************************)
VenueTypes == {"fast_food", "premium", "casual", "standard"}

EvaluateOutcome(has, venue_type) ==
    IF ~has THEN "AttributeError"
    ELSE IF venue_type \notin VenueTypes THEN "KeyError"
         ELSE "ok"

\* The whole method: what it raises, or "ok" and the scores it returns.
EvaluateCall(m, has, baselines, venue_type) ==
    [outcome |-> EvaluateOutcome(has, venue_type),
     scores |-> IF EvaluateOutcome(has, venue_type) = "ok"
                THEN Evaluate(m, baselines, venue_type) ELSE << >>]

(***************************************************************************)
(* The inputs of the model.                                                *)
(***************************************************************************)
KeyName == <<"n","a","m","e">>

TagAmenityCafe == PriorityKeys[1] :> <<"c","a","f","e">>

TagShopBuilding == (PriorityKeys[2] :> <<"b","a","k","e","r","y">>) @@ (PriorityKeys[3] :> <<"y","e","s">>)

TagBuilding == PriorityKeys[3] :> <<"y","e","s">>

TagTransportOffice ==
    (PriorityKeys[7] :> <<"p","l","a","t","f","o","r","m">>) @@ (PriorityKeys[8] :> <<"i","t">>)

TagNameOnly == KeyName :> <<"x">>

TagAmenityBar == PriorityKeys[1] :> <<"b","a","r">>

TagLeisurePark == PriorityKeys[5] :> <<"p","a","r","k">>

TagOffice == PriorityKeys[8] :> <<"i","t">>

NoTags == << >>

Vertex == [lat |-> 1, lon |-> 2]

\* What overpy returns, before the ids are given: tags of a node, tags and
\* vertices of a way, tags of a relation.
NodeChoices == {TagAmenityCafe, TagShopBuilding, TagNameOnly, NoTags}

WayChoices == { [tags |-> TagBuilding, nodes |-> <<Vertex>>],
                [tags |-> TagBuilding, nodes |-> << >>],
                [tags |-> NoTags, nodes |-> <<Vertex, Vertex>>],
                [tags |-> TagNameOnly, nodes |-> <<Vertex>>] }

RelationChoices == {TagTransportOffice, NoTags}

MkNodes(ts) ==
    [k \in 1..Len(ts) |-> [id |-> k, lat |-> 1, lon |-> 2, tags |-> ts[k]]]

MkWays(ws) ==
    [k \in 1..Len(ws) |-> [id |-> 10 + k, tags |-> ws[k].tags,
                           nodes |-> ws[k].nodes]]

MkRelations(ts) == [k \in 1..Len(ts) |-> [id |-> 20 + k, tags |-> ts[k]]]

SeqsOfLen(S, n) == [1..n -> S]

\* The results with i nodes, j ways and k relations.
ResultsOf(i, j, k) ==
    { [status |-> "ok", nodes |-> MkNodes(ns), ways |-> MkWays(ws),
       relations |-> MkRelations(rs)] :
         ns \in SeqsOfLen(NodeChoices, i),
         ws \in SeqsOfLen(WayChoices, j),
         rs \in SeqsOfLen(RelationChoices, k) }

\* The results with at most n features in all.
ResultsUpTo(n) ==
    UNION { ResultsOf(ijk[1], ijk[2], ijk[3]) :
              ijk \in { t \in (0..n) \X (0..n) \X (0..n) :
                          t[1] + t[2] + t[3] <= n } }

MaxFeatures == 2

\* Every mapping from a set of the nine keys to one value per key.
AllKeys == { PriorityKeys[k] : k \in 1..Len(PriorityKeys) } \cup {KeyName}

ValueOf(key) == IF key = PriorityKeys[1] THEN <<"b","a","r">> ELSE <<"y","e","s">>

AllTagSets == { [key \in K |-> ValueOf(key)] : K \in SUBSET AllKeys }

TagResults ==
    { [status |-> "ok", nodes |-> MkNodes(<<t>>), ways |-> << >>,
       relations |-> << >>] : t \in AllTagSets \cup {TagShopBuilding} }

QueryErrors ==
    { [status |-> st, nodes |-> << >>, ways |-> << >>, relations |-> << >>] :
        st \in {"TooManyRequests", "error"} }

\* No query was issued.
NoReply ==
    [status |-> "none", nodes |-> << >>, ways |-> << >>, relations |-> << >>]

\* Replies of the spatial service when acquisition is studied alone.
NearbyReplies == QueryErrors \cup ResultsUpTo(MaxFeatures)

\* Replies of the spatial service in the model of the whole program.
MixedResult ==
    [status |-> "ok", nodes |-> MkNodes(<<TagAmenityCafe, NoTags>>),
     ways |-> MkWays(<< [tags |-> TagBuilding, nodes |-> << >>] >>),
     relations |-> MkRelations(<<TagTransportOffice>>)]

EmptyResult ==
    [status |-> "ok", nodes |-> << >>, ways |-> << >>, relations |-> << >>]

Replies == QueryErrors \cup {MixedResult, EmptyResult}


(***************************************************************************)
(* The program: records that are geocoded, enriched, put through           *)
(* compute_stats as one cohort (all records, in order) and evaluated.      *)
(* The calls are sequential: nothing else runs inside compute_stats.       *)
(***************************************************************************)
NoCall ==
    [op |-> "none", rec |-> 0, force |-> FALSE, outcome |-> "none",
     ret |-> None, lookups |-> << >>, oracle |-> << >>, reply |-> NoReply,
     queries |-> 0, venue_type |-> "", subject |-> << >>,
     baselines |-> << >>, scores |-> << >>, outcomes |-> << >>]

\* What the listings give for the records besides the address: price,
\* total_area, transport_nearby, extra_attributes.
Listings == <<
    [price |-> 100, total_area |-> 10, transport_nearby |-> << >>,
     extra_attributes |-> << >>],
    [price |-> 200, total_area |-> 10, transport_nearby |-> [stops |-> 1],
     extra_attributes |-> [population_density |-> 2, avg_income |-> 3]],
    [price |-> 0, total_area |-> 10, transport_nearby |-> << >>,
     extra_attributes |-> [avg_income |-> 1]] >>

ListingOf(r) == Listings[((r - 1) % Len(Listings)) + 1]

\* The record as compute_stats and evaluate read it.
MemberOf(r, grouped) ==
    [price |-> ListingOf(r).price, total_area |-> ListingOf(r).total_area,
     transport_nearby |-> ListingOf(r).transport_nearby,
     extra_attributes |-> ListingOf(r).extra_attributes,
     grouped |-> grouped]

\* The cohort of compute_stats: every record, in order.
RecordsCohort == [r \in Records |-> MemberOf(r, nearby_grouped_objects[r])]

\* The baselines of a cohort without members: (0, 1) for every metric.
DefaultStats == ComputeStats(<< >>)

\* A record parsed from a listing: the address as found, no nearby data;
\* a listing without an address may come with its coordinates.
Init ==
    /\ address = [r \in Records |-> AddressOf(r)]
    /\ coords \in [Records -> Points \cup {None}]
    /\ \A r \in Records :
          coords[r] # None => address[r] = << >> /\ coords[r] = <<1, 11>>
    /\ nearby_objects = [r \in Records |-> << >>]
    /\ has_grouped = [r \in Records |-> FALSE]
    /\ nearby_grouped_objects = [r \in Records |-> << >>]
    /\ geocoded = [r \in Records |-> FALSE]
    /\ cache = EmptyCache
    /\ pc = "idle"
    /\ est = 0
    /\ call = NoCall
    /\ addr = << >>
    /\ variants = None
    /\ stats = DefaultStats
    /\ estates = << >>

geocode_address(r, force, all_tails) ==
    /\ pc = "idle"
    /\ \E vs \in {CachedQueryVariants(cache, address[r])} :
       \E oracle \in Oracles(Len(Candidates(coords[r], address[r], force, vs)),
                             all_tails) :
       \E res \in {GeocodeAddress(coords[r], address[r], force, oracle, vs)} :
          /\ coords' = [coords EXCEPT ![r] = res.coords]
          /\ cache' = CacheAfter(cache, coords[r], address[r], force, vs)
          /\ geocoded' = [geocoded EXCEPT
                            ![r] = @ \/ Matched(oracle, res.lookups)]
          /\ call' = [NoCall EXCEPT
                        !.op = "geocode_address", !.rec = r,
                        !.force = force, !.outcome = res.outcome,
                        !.ret = res.ret, !.lookups = res.lookups,
                        !.oracle = oracle]
    /\ UNCHANGED << address, nearby_objects, has_grouped,
                    nearby_grouped_objects, pc, est, addr, variants, stats,
                    estates >>

\* The spatial service is queried only when the record has coords.
RepliesFor(c, replies) == IF c = None THEN {NoReply} ELSE replies

fetch_nearby_objects(r, replies) ==
    /\ pc = "idle"
    /\ \E reply \in RepliesFor(coords[r], replies) :
       \E res \in {FetchNearbyObjects(coords[r], nearby_objects[r],
                                      has_grouped[r],
                                      nearby_grouped_objects[r], reply)} :
          /\ nearby_objects' = [nearby_objects EXCEPT ![r] = res.objects]
          /\ has_grouped' = [has_grouped EXCEPT ![r] = res.has]
          /\ nearby_grouped_objects' =
                [nearby_grouped_objects EXCEPT ![r] = res.grouped]
          /\ call' = [NoCall EXCEPT
                        !.op = "fetch_nearby_objects", !.rec = r,
                        !.outcome = res.outcome, !.ret = res.ret,
                        !.reply = reply, !.queries = res.queries]
    /\ UNCHANGED << address, coords, geocoded, cache, pc, est, addr,
                    variants, stats, estates >>

compute_stats_call ==
    /\ pc = "idle"
    /\ pc' = "compute_stats"
    /\ est' = 1
    /\ call' = [NoCall EXCEPT !.op = "compute_stats", !.outcome = "called"]
    /\ UNCHANGED << recordVars, cache, addr, variants, stats, estates >>

\* The member reaches est.geocode_address().
MemberGeocodes(c, has, groups) == LacksGroups(has, groups) /\ c = None

\* One pass of "for est in estates".
compute_stats_member(replies) ==
    /\ pc = "compute_stats"
    /\ est \in Records
    /\ \E c \in {coords[est]}, a \in {address[est]}, h \in {has_grouped[est]},
          g \in {nearby_grouped_objects[est]} :
       \E vs \in {IF MemberGeocodes(c, h, g)
                   THEN CachedQueryVariants(cache, a) ELSE << >>} :
       \E oracle \in Oracles(IF MemberGeocodes(c, h, g)
                             THEN Len(Candidates(c, a, FALSE, vs)) ELSE 0,
                             FALSE) :
       \E geo \in {MemberGeocode(c, a, oracle, vs)} :
       \E reply \in (IF LacksGroups(h, g) /\ geo.outcome = "ok"
                     THEN replies ELSE {NoReply}) :
       \E res \in {EnrichMember(c, a, nearby_objects[est], h, g, oracle,
                                reply, vs)} :
          /\ coords' = [coords EXCEPT ![est] = res.coords]
          /\ cache' = IF MemberGeocodes(c, h, g)
                      THEN CacheAfter(cache, c, a, FALSE, vs) ELSE cache
          /\ nearby_objects' = [nearby_objects EXCEPT ![est] = res.objects]
          /\ has_grouped' = [has_grouped EXCEPT ![est] = res.has]
          /\ nearby_grouped_objects' =
                [nearby_grouped_objects EXCEPT ![est] = res.grouped]
          /\ geocoded' = [geocoded EXCEPT
                            ![est] = @ \/ Matched(oracle, res.lookups)]
          /\ call' = [NoCall EXCEPT
                        !.op = "compute_stats", !.rec = est,
                        !.outcome = res.outcome, !.lookups = res.lookups,
                        !.oracle = oracle, !.reply = reply,
                        !.queries = res.queries,
                        !.outcomes = Append(call.outcomes, res.outcome)]
    /\ est' = est + 1
    /\ UNCHANGED << address, pc, addr, variants, stats, estates >>

compute_stats_return ==
    /\ pc = "compute_stats"
    /\ est \notin Records
    /\ pc' = "idle"
    /\ est' = 0
    /\ stats' = ComputeStats(RecordsCohort)
    /\ call' = [NoCall EXCEPT !.op = "compute_stats", !.outcome = "returned",
                              !.baselines = stats',
                              !.outcomes = call.outcomes]
    /\ UNCHANGED << recordVars, cache, addr, variants, estates >>

evaluate(r, venue_type) ==
    /\ pc = "idle"
    /\ \E res \in {EvaluateCall(MemberOf(r, nearby_grouped_objects[r]),
                                 has_grouped[r], stats, venue_type)} :
          call' = [NoCall EXCEPT
                     !.op = "evaluate", !.rec = r,
                     !.venue_type = venue_type, !.baselines = stats,
                     !.subject = MemberOf(r, nearby_grouped_objects[r]),
                     !.outcome = res.outcome, !.scores = res.scores]
    /\ UNCHANGED << recordVars, cache, pc, est, addr, variants, stats, estates >>

Next ==
    \/ \E r \in Records, force \in BOOLEAN : geocode_address(r, force, FALSE)
    \/ \E r \in Records : fetch_nearby_objects(r, Replies)
    \/ compute_stats_call
    \/ compute_stats_member(Replies)
    \/ compute_stats_return
    \/ \E r \in Records, v \in {"standard", "bistro"} : evaluate(r, v)

Spec == Init /\ [][Next]_vars

(***************************************************************************)
(* Acquisition alone: fetch_nearby_objects on the first record, against    *)
(* every reply of NearbyReplies.                                           *)
(***************************************************************************)
NextNearby == fetch_nearby_objects(1, NearbyReplies)

SpecNearby == Init /\ [][NextNearby]_vars

(***************************************************************************)
(* Geocoding alone: geocode_address on every record, the service free to   *)
(* reply anything to every candidate.                                      *)
(***************************************************************************)
NextGeocode ==
    \E r \in Records, force \in BOOLEAN : geocode_address(r, force, TRUE)

SpecGeocode == Init /\ [][NextGeocode]_vars

(***************************************************************************)
(* Classification alone: fetch_nearby_objects on the first record, the     *)
(* service returning one node with any of the tag mappings of AllTagSets.  *)
(***************************************************************************)
NextTags == fetch_nearby_objects(1, TagResults)

SpecTags == Init /\ [][NextTags]_vars

(***************************************************************************)
(* _make_query_variants alone, on every address of AddrSet: up to MaxParts *)
(* segments joined by commas, and the address of the documentation.        *)
(***************************************************************************)
MaxParts == 4

Segments == { <<"a">>, <<"u","l","."," ","a">>, <<"r","-","n"," ","b">>, << >> }

Separators == { <<",">>, <<","," ">> }

RECURSIVE AddressesOf(_)
AddressesOf(n) ==
    IF n <= 1 THEN Segments
    ELSE { p \o sep \o seg :
             p \in AddressesOf(n - 1), sep \in Separators, seg \in Segments }

ExampleAddress == <<"M","o","s","k","v","a",","," ","r","-","n"," ","C","e","n","t","r","a","l","q","n","y","j",","," ","u","l","."," ","L","e","n","i","n","a",","," ","5">>

AddrSet == UNION { AddressesOf(n) : n \in 1..MaxParts } \cup {ExampleAddress}

InitVariants ==
    /\ Init
    /\ \A r \in Records : coords[r] = None

make_query_variants ==
    /\ variants = None
    /\ \E a \in AddrSet :
          /\ addr' = a
          /\ variants' = MakeQueryVariants(a)
    /\ UNCHANGED << recordVars, cache, pc, est, call, stats, estates >>

SpecVariants == InitVariants /\ [][make_query_variants]_vars

(***************************************************************************)
(* Scoring alone: compute_stats on every cohort of up to MaxCohort members *)
(* drawn from Members, and evaluate of every member against the baselines  *)
(* the caller holds.  The members have their groups already: when          *)
(* compute_stats retries a member whose mapping is empty, the service has  *)
(* nothing for it, and the mapping stays empty.                            *)
(***************************************************************************)
MaxCohort == 3

\* The groups a record gets from a reply of nodes with these tags.
GroupsOf(tagsets) ==
    GroupByPrimaryTag(RawObjects([status |-> "ok", nodes |-> MkNodes(tagsets),
                                  ways |-> << >>, relations |-> << >>]))

Members == {
    [price |-> 100, total_area |-> 10, transport_nearby |-> << >>,
     extra_attributes |-> << >>, grouped |-> << >>],
    [price |-> 200, total_area |-> 10, transport_nearby |-> [stops |-> 1],
     extra_attributes |-> [population_density |-> 2, avg_income |-> 3],
     grouped |-> GroupsOf(<<TagAmenityCafe, TagAmenityBar>>)],
    [price |-> 300, total_area |-> 10, transport_nearby |-> << >>,
     extra_attributes |-> [population_density |-> 4],
     grouped |-> GroupsOf(<<TagShopBuilding, TagTransportOffice,
                            TagNameOnly>>)],
    [price |-> 0, total_area |-> 10, transport_nearby |-> << >>,
     extra_attributes |-> [avg_income |-> 1],
     grouped |-> GroupsOf(<<TagAmenityCafe, TagOffice>>)],
    [price |-> 200, total_area |-> 10, transport_nearby |-> << >>,
     extra_attributes |-> << >>,
     grouped |-> GroupsOf(<<TagLeisurePark, TagBuilding>>)] }

Cohorts == UNION { [1..n -> Members] : n \in 0..MaxCohort }

InitScoring ==
    /\ Init
    /\ \A r \in Records : coords[r] = None

\* The listings are parsed and enriched: the cohort of the request.
cian_search(cohort) ==
    /\ estates = << >>
    /\ call.op = "none"
    /\ cohort # << >>
    /\ estates' = cohort
    /\ call' = [NoCall EXCEPT !.op = "cian_search"]
    /\ UNCHANGED << recordVars, cache, pc, est, addr, variants, stats >>

\* RealEstate.compute_stats(estates)
compute_stats ==
    /\ call.op \in {"none", "cian_search"}
    /\ stats' = ComputeStats(estates)
    /\ call' = [NoCall EXCEPT !.op = "compute_stats", !.outcome = "returned",
                              !.baselines = stats']
    /\ UNCHANGED << recordVars, cache, pc, est, addr, variants, estates >>

\* m.evaluate(stats, venue_type=venue_type), m a record with its groups,
\* stats what compute_stats returned
evaluate_member(m, venue_type) ==
    /\ call.op \in {"compute_stats", "evaluate"}
    /\ \E res \in {EvaluateCall(m, TRUE, stats, venue_type)} :
          call' = [NoCall EXCEPT
                     !.op = "evaluate", !.venue_type = venue_type,
                     !.baselines = stats, !.subject = m,
                     !.outcome = res.outcome, !.scores = res.scores]
    /\ UNCHANGED << recordVars, cache, pc, est, addr, variants, stats,
                    estates >>

NextScoring ==
    \/ \E cohort \in Cohorts : cian_search(cohort)
    \/ compute_stats
    \/ \E m \in Members, v \in VenueTypes : evaluate_member(m, v)

SpecScoring == InitScoring /\ [][NextScoring]_vars

(***************************************************************************)
(* Properties of geocode_address.  A step of the method on record r is     *)
(* one whose call' names it; the unprimed variables are the record before  *)
(* the call.                                                               *)
(***************************************************************************)
GeocodeStep(r) == call'.op = "geocode_address" /\ call'.rec = r

\* The call goes to the geocoder: no stored pair to return, an address.
QueryingStep(r) ==
    GeocodeStep(r) /\ (coords[r] = None \/ call'.force) /\ address[r] # << >>

\* The reply to candidate k is the first that is not "no match".
FirstDecisive(reply, k) ==
    reply[k].status # "no match"
        /\ \A j \in 1..(k - 1) : reply[j].status = "no match"

\* C1: geocode_address without force on a record whose coords are set
\* returns exactly the stored pair, issues no lookup and changes no coords,
\* at every call and whether or not the address is empty.
C1_StoredCoordsReturned ==
    [][\A r \in Records :
          GeocodeStep(r) /\ ~call'.force /\ coords[r] # None
              => /\ call'.outcome = "ok"
                 /\ call'.ret = coords[r]
                 /\ call'.lookups = << >>
                 /\ coords' = coords]_vars

\* A call without force has returned the pair an earlier lookup stored.
C1_Witness ==
    \E r \in Records :
        /\ call.op = "geocode_address" /\ call.rec = r /\ ~call.force
        /\ call.outcome = "ok" /\ call.lookups = << >>
        /\ call.ret = coords[r] /\ geocoded[r]

\* C2: a call that queries looks the candidates up in the order of the
\* variant list, each at most once; the first candidate that matches gives
\* the coords and no later one is looked up; NoMatch is raised exactly when
\* every candidate has been looked up and none matched or failed.
C2_FirstMatchWins ==
    [][\A r \in Records :
          QueryingStep(r)
              => LET vs == CachedQueryVariants(cache', address[r])
                     asked == call'.lookups
                     reply == call'.oracle
                 IN  /\ Len(asked) \in 1..Len(vs)
                     /\ \A k \in 1..Len(asked) : asked[k] = vs[k]
                     /\ \A k \in 1..Len(vs) :
                           FirstDecisive(reply, k) /\ reply[k].status = "match"
                               => /\ Len(asked) = k
                                  /\ call'.outcome = "ok"
                                  /\ coords'[r] = <<reply[k].latitude,
                                                    reply[k].longitude>>
                                  /\ call'.ret = coords'[r]
                     /\ call'.outcome = "NoMatch"
                           <=> /\ Len(asked) = Len(vs)
                               /\ \A k \in 1..Len(vs) :
                                     reply[k].status = "no match"]_vars

\* The second candidate matched after the first did not; the third, which
\* would have matched elsewhere, was not looked up.
C2_Witness ==
    /\ call.op = "geocode_address" /\ call.outcome = "ok"
    /\ Len(call.lookups) = 2 /\ Len(call.oracle) > 2
    /\ call.oracle[1].status = "no match"
    /\ call.oracle[3].status = "match"
    /\ call.oracle[3] # call.oracle[2]
    /\ call.ret = <<call.oracle[2].latitude, call.oracle[2].longitude>>

\* C3: when the lookup of candidate k signals that the service is
\* unavailable, no candidate after k is looked up and the call fails with
\* ServiceUnavailable, never NoMatch, whatever later candidates would give.
C3_UnavailableStops ==
    [][\A r \in Records :
          QueryingStep(r)
              => LET reply == call'.oracle
                 IN  \A k \in 1..Len(reply) :
                        FirstDecisive(reply, k)
                            /\ reply[k].status = "unavailable"
                            => /\ Len(call'.lookups) = k
                               /\ call'.outcome = "ServiceUnavailable"
                               /\ coords' = coords]_vars

\* The service failed at the second candidate while the third would have
\* matched.
C3_Witness ==
    /\ call.op = "geocode_address" /\ call.outcome = "ServiceUnavailable"
    /\ Len(call.lookups) = 2 /\ Len(call.oracle) > 2
    /\ call.oracle[2].status = "unavailable"
    /\ call.oracle[3].status = "match"

\* A record parsed without coords.  The records parsed with coords are the
\* ones without an address, which no call can geocode: they keep both.
CreatedWithoutCoords(r) == address[r] # << >> \/ coords[r] = None

\* C4: a record created without coords has coords exactly when a lookup
\* for it has matched; a failing geocode_address, forced or not, leaves the
\* coords as they were; coords change only in a step whose lookup matched,
\* only for the record of that step, and to the matched location.
C4_CoordsIffGeocoded ==
    /\ [](\A r \in Records :
             CreatedWithoutCoords(r) => (coords[r] # None <=> geocoded[r]))
    /\ [][/\ \A r \in Records :
               GeocodeStep(r) /\ call'.outcome # "ok" => coords' = coords
          /\ coords' # coords
               => /\ call'.op \in {"geocode_address", "compute_stats"}
                  /\ call'.rec \in Records
                  /\ Matched(call'.oracle, call'.lookups)
                  /\ \A q \in Records \ {call'.rec} : coords'[q] = coords[q]
                  /\ \E k \in 1..Len(call'.lookups) :
                        coords'[call'.rec] = <<call'.oracle[k].latitude,
                                              call'.oracle[k].longitude>>]_vars

\* A forced call on a record that had coords found no match and the record
\* still has the coords of the earlier match.
C4_Witness ==
    \E r \in Records :
        /\ call.op = "geocode_address" /\ call.rec = r /\ call.force
        /\ call.outcome = "NoMatch"
        /\ coords[r] # None /\ geocoded[r]

(***************************************************************************)
(* Properties of _make_query_variants, on the states of SpecVariants where *)
(* variants holds the list made for addr.                                  *)
(***************************************************************************)
CommaSpace == <<",", " ">>

\* The list as documented, before duplicates are dropped.
DocumentedVariants(a) ==
    LET cleaned == NormalizeAddress(a)
        p == Parts(cleaned)
    IN  IF Len(p) >= 3
        THEN << cleaned,
                p[1] \o CommaSpace \o p[2] \o CommaSpace \o p[3],
                p[1] \o CommaSpace \o p[2],
                a >>
        ELSE << cleaned, a >>

\* The index of the first occurrence of x in s (0 when there is none).
FirstIndex(s, x) ==
    IF \E i \in 1..Len(s) : s[i] = x
    THEN CHOOSE i \in 1..Len(s) :
            s[i] = x /\ \A j \in 1..(i - 1) : s[j] # x
    ELSE 0

\* s without the elements that occur earlier in s.
FirstOccurrences(s) ==
    LET keep == { i \in 1..Len(s) : FirstIndex(s, s[i]) = i }
    IN  [k \in 1..Cardinality(keep) |->
            s[CHOOSE i \in keep : Cardinality({ j \in keep : j <= i }) = k]]

Range(s) == { s[i] : i \in 1..Len(s) }

\* sub occurs in s at position i.
OccursAt(s, sub, i) ==
    i + Len(sub) - 1 <= Len(s) /\ SubSeq(s, i, i + Len(sub) - 1) = sub

Contains(s, sub) == \E i \in 1..(Len(s) + 1) : OccursAt(s, sub, i)

\* C5: the variant list is the documented list without its duplicates:
\* [cleaned, "p0, p1, p2", "p0, p1", original] when the cleaned string has
\* at least three non-empty trimmed comma parts, [cleaned, original]
\* otherwise, each string kept at its first occurrence.
C5_VariantListShape ==
    variants # None => variants = FirstOccurrences(DocumentedVariants(addr))

\* An address of four parts gave four variants, the whole cleaned string
\* and its first three parts among them.
C5_Witness ==
    /\ variants # None
    /\ Len(Parts(NormalizeAddress(addr))) = 4
    /\ Len(variants) = 4
    /\ variants[1] # variants[2]

\* C6 as stated: no two equal strings, first-seen order, and the original
\* address is the last element of the list.
C6_OriginalIsLast ==
    variants # None
        => /\ \A i, j \in 1..Len(variants) :
                 i # j => variants[i] # variants[j]
           /\ \A i, j \in 1..Len(variants) :
                 i < j => FirstIndex(RawVariants(addr), variants[i])
                             < FirstIndex(RawVariants(addr), variants[j])
           /\ variants[Len(variants)] = addr

\* C6: no two variants are equal, the variants are the strings of the list
\* in the order of their first occurrence, and the original address is one
\* of them; it is the last one unless the address has three parts or more
\* and equals its cleaned form or its first three parts, and then the list
\* ends with "p0, p1".
C6_OriginalKept ==
    variants # None
        => LET raw == RawVariants(addr)
               n == Len(variants)
           IN  /\ \A i, j \in 1..n : i # j => variants[i] # variants[j]
               /\ Range(variants) = Range(raw)
               /\ \A i, j \in 1..n :
                     i < j => FirstIndex(raw, variants[i])
                                 < FirstIndex(raw, variants[j])
               /\ addr \in Range(variants)
               /\ variants[n] # addr
                     => /\ Len(raw) = 4
                        /\ addr \in {raw[1], raw[2]}
                        /\ variants[n] = raw[3]

\* The address was already clean: it is tried first and the list ends with
\* its first two parts.
C6_Witness ==
    /\ variants # None
    /\ variants[1] = addr
    /\ Len(variants) = 2
    /\ variants[2] # addr

\* C7: the cleaned form of the documented example starts with the city and
\* still holds the expanded street and the house number.
C7_ExampleKeepsStreet ==
    addr = ExampleAddress
        => /\ OccursAt(NormalizeAddress(addr), <<"M","o","s","k","v","a">>, 1)
           /\ Contains(NormalizeAddress(addr),
                       <<"u","l","i","c","a"," ","L","e","n","i","n","a",",",
                         " ","5">>)

(***************************************************************************)
(* Properties of fetch_nearby_objects.                                     *)
(***************************************************************************)
FetchStep(r) == call'.op = "fetch_nearby_objects" /\ call'.rec = r

FetchFailures == {"InvalidInput", "Throttled", "QueryFailed"}

\* C8: without coords the call fails with InvalidInput and issues no query;
\* with coords it issues exactly one query, a rate-limit signal gives
\* Throttled and any other failure of the query QueryFailed; after each of
\* these failures the stored list and groups are those before the call.
C8_FetchFailures ==
    [][\A r \in Records :
          FetchStep(r)
              => /\ coords[r] = None
                       => call'.outcome = "InvalidInput" /\ call'.queries = 0
                 /\ coords[r] # None
                       => /\ call'.queries = 1
                          /\ call'.reply.status = "TooManyRequests"
                                => call'.outcome = "Throttled"
                          /\ call'.reply.status = "error"
                                => call'.outcome = "QueryFailed"
                          /\ call'.reply.status = "ok"
                                => call'.outcome = "ok"
                 /\ call'.outcome \in FetchFailures
                       => /\ nearby_objects' = nearby_objects
                          /\ has_grouped' = has_grouped
                          /\ nearby_grouped_objects' = nearby_grouped_objects
                          /\ coords' = coords]_vars

\* A call was throttled on a record that keeps the features and groups of
\* an earlier call.
C8_Witness ==
    \E r \in Records :
        /\ call.op = "fetch_nearby_objects" /\ call.rec = r
        /\ call.outcome = "Throttled" /\ call.queries = 1
        /\ nearby_objects[r] # << >>
        /\ nearby_grouped_objects[r] # << >>

\* The feature has tags and, if it is a way, a vertex.
WellFormed(obj) ==
    /\ DOMAIN obj.tags # {}
    /\ IF obj.type = "way" THEN Len(obj.nodes) >= 1 ELSE TRUE

\* C9: every feature of the stored list and of every group has a tag
\* mapping that is not empty, and every stored way has a vertex, whatever
\* the service returned.
C9_StoredFeaturesTagged ==
    \A r \in Records :
        /\ \A i \in 1..Len(nearby_objects[r]) :
              WellFormed(nearby_objects[r][i])
        /\ \A g \in 1..Len(nearby_grouped_objects[r]) :
              \A i \in 1..Len(nearby_grouped_objects[r][g].objects) :
                 WellFormed(nearby_grouped_objects[r][g].objects[i])

\* The service returned a tagged node and a tagged way without vertices:
\* the node alone is stored and grouped.
C9_Witness ==
    /\ call.op = "fetch_nearby_objects" /\ call.outcome = "ok"
    /\ Len(call.reply.nodes) = 1 /\ Len(call.reply.ways) = 1
    /\ call.reply.ways[1].tags # NoTags
    /\ call.reply.ways[1].nodes = << >>
    /\ Len(nearby_objects[call.rec]) = 1
    /\ nearby_objects[call.rec][1].type = "node"
    /\ Len(nearby_grouped_objects[call.rec]) = 1

\* The keys that classify a feature, as documented, by falling priority.
DocumentedKeys == <<
    <<"a","m","e","n","i","t","y">>,
    <<"s","h","o","p">>,
    <<"b","u","i","l","d","i","n","g">>,
    <<"h","i","g","h","w","a","y">>,
    <<"l","e","i","s","u","r","e">>,
    <<"t","o","u","r","i","s","m">>,
    <<"p","u","b","l","i","c","_","t","r","a","n","s","p","o","r","t">>,
    <<"o","f","f","i","c","e">> >>

DocumentedLabel(tags) ==
    LET found == { k \in 1..Len(DocumentedKeys) :
                     DocumentedKeys[k] \in DOMAIN tags }
    IN  IF found = {} THEN <<"o","t","h","e","r">>
        ELSE LET k == CHOOSE m \in found : \A n \in found : m <= n
             IN  DocumentedKeys[k] \o <<"=">> \o tags[DocumentedKeys[k]]

\* C10: every group holds the features whose label is the group's, the
\* label being "<k>=<tags[k]>" for the first documented key k in the
\* feature's tags and "other" without one; every stored feature is in the
\* group of its label and in no other.
C10_LabelByPriority ==
    \A r \in Records :
       LET groups == nearby_grouped_objects[r]
           stored == nearby_objects[r]
       IN  /\ \A g \in 1..Len(groups) :
                 \A i \in 1..Len(groups[g].objects) :
                    groups[g].label = DocumentedLabel(groups[g].objects[i].tags)
           /\ \A i \in 1..Len(stored) :
                 \A g \in 1..Len(groups) :
                    (\E j \in 1..Len(groups[g].objects) :
                        groups[g].objects[j] = stored[i])
                       <=> groups[g].label = DocumentedLabel(stored[i].tags)
           /\ \A g, h \in 1..Len(groups) :
                 g # h => groups[g].label # groups[h].label

\* The feature tagged shop=bakery and building=yes is in the one group
\* "shop=bakery".
C10_Witness ==
    /\ call.op = "fetch_nearby_objects" /\ call.outcome = "ok"
    /\ Len(nearby_objects[call.rec]) = 1
    /\ nearby_objects[call.rec][1].tags = TagShopBuilding
    /\ Len(nearby_grouped_objects[call.rec]) = 1
    /\ nearby_grouped_objects[call.rec][1].label =
          <<"s","h","o","p","=","b","a","k","e","r","y">>

(***************************************************************************)
(* C11.  In every reachable state every record has a defined mapping of    *)
(* groups, and right after a fetch_nearby_objects that failed or was       *)
(* skipped for want of coords that mapping is the empty one.  The code     *)
(* breaks it: nearby_grouped_objects is not a field of the dataclass, so   *)
(* a record has no such attribute until line 240 or line 321 assigns it,   *)
(* and a failed fetch leaves whatever was there.                           *)
(***************************************************************************)
C11_GroupsAlwaysDefined ==
    \A r \in Records :
        /\ has_grouped[r]
        /\ (/\ call.op = "fetch_nearby_objects"
            /\ call.rec = r
            /\ call.outcome \in FetchFailures)
              => nearby_grouped_objects[r] = << >>

(***************************************************************************)
(* C12.  compute_stats never propagates the failure of a member: whatever  *)
(* the geocoder and the spatial service reply, every pass of the loop      *)
(* goes on to the next member, a member that failed (InvalidInput,         *)
(* ServiceUnavailable, NoMatch, Throttled, QueryFailed) is left with the   *)
(* empty mapping, and the call returns, after one pass per member, a       *)
(* (mean, stddev) pair for each of the six metrics with every member       *)
(* holding a defined mapping of groups.                                    *)
(***************************************************************************)
MemberFailures ==
    {"InvalidInput", "ServiceUnavailable", "NoMatch", "Throttled",
     "QueryFailed"}

DocumentedMetrics ==
    {"price_psqm", "transport", "competition", "infrastructure",
     "population_density", "avg_income"}

MemberStep == call'.op = "compute_stats" /\ call'.rec \in Records

ReturnStep == call'.op = "compute_stats" /\ call'.outcome = "returned"

C12_MemberFailuresContained ==
    /\ [](pc = "compute_stats" => est \in 1..(NumRecords + 1))
    /\ [][/\ MemberStep =>
               /\ call'.outcome \in MemberFailures \cup {"ok", "skipped"}
               /\ pc' = "compute_stats"
               /\ est' = call'.rec + 1
               /\ has_grouped'[call'.rec]
               /\ call'.outcome \in MemberFailures =>
                     nearby_grouped_objects'[call'.rec] = << >>
          /\ ReturnStep =>
               /\ pc' = "idle"
               /\ Len(call'.outcomes) = NumRecords
               /\ DOMAIN stats' = DocumentedMetrics
               /\ \A metric \in DocumentedMetrics :
                     DOMAIN stats'[metric] = {1, 2}
               /\ call'.baselines = stats'
               /\ \A r \in Records :
                     /\ has_grouped'[r]
                     /\ call'.outcomes[r] \in MemberFailures =>
                           nearby_grouped_objects'[r] = << >>]_vars

\* A run in which a member failed in geocoding, a later one in acquisition,
\* and compute_stats returned.
C12_Witness ==
    /\ call.op = "compute_stats"
    /\ call.outcome = "returned"
    /\ \E i, j \in Records :
          /\ i < j
          /\ call.outcomes[i] \in {"NoMatch", "ServiceUnavailable", "InvalidInput"}
          /\ call.outcomes[j] \in {"Throttled", "QueryFailed"}

(***************************************************************************)
(* C13.  When compute_stats returns and the acquisition failed for exactly *)
(* one member (no other member failed), the baselines of transport,        *)
(* competition and infrastructure are those of the other members alone.    *)
(* The code breaks it: lines 327-348 take one value per member of the      *)
(* cohort, the failed one included, whose empty mapping counts as no       *)
(* feature nearby.                                                         *)
(***************************************************************************)
Without(cohort, i) ==
    [k \in 1..(Len(cohort) - 1) |-> IF k < i THEN cohort[k] ELSE cohort[k + 1]]

PoiMetrics == {"transport", "competition", "infrastructure"}

C13_FailedMemberAddsNoSample ==
    (call.op = "compute_stats" /\ call.outcome = "returned") =>
        \A i \in Records :
            (/\ call.outcomes[i] \in {"Throttled", "QueryFailed"}
             /\ \A j \in Records \ {i} : call.outcomes[j] \notin MemberFailures)
               => \A metric \in PoiMetrics :
                     stats[metric] =
                        Safe(Samples(Without(RecordsCohort, i), metric))

(***************************************************************************)
(* Properties of compute_stats and evaluate on drawn cohorts.  The number  *)
(* of values a cohort contributes to a metric is restated here: one per    *)
(* member, except for the price per area, to which only the members with a *)
(* price and an area contribute.                                           *)
(***************************************************************************)
One == Real(<<1, 1>>)

Priced(cohort) == { k \in 1..Len(cohort) :
                      cohort[k].price # 0 /\ cohort[k].total_area # 0 }

Contributed(cohort, metric) ==
    IF metric = "price_psqm" THEN Cardinality(Priced(cohort)) ELSE Len(cohort)

Returned == call.op = "compute_stats" /\ call.outcome = "returned"

(***************************************************************************)
(* C14.  For each metric on its own, compute_stats returns the mean 0 when *)
(* the cohort contributes no value to it and the stddev 1 when the cohort  *)
(* contributes no value or one; a cohort of one member gets the stddev 1   *)
(* for all six metrics, and compute_stats returns for the empty cohort     *)
(* and for every cohort of one.                                            *)
(***************************************************************************)
C14_DefaultBaselines ==
    /\ Returned =>
          /\ DOMAIN stats = DocumentedMetrics
          /\ \A metric \in DocumentedMetrics :
                /\ Contributed(estates, metric) = 0 => stats[metric][1] = Zero
                /\ Contributed(estates, metric) <= 1 => stats[metric][2] = One
          /\ Len(estates) = 1 =>
                \A metric \in DocumentedMetrics : stats[metric][2] = One
    /\ (call.op \in {"none", "cian_search"} /\ Len(estates) <= 1) =>
          ENABLED compute_stats

\* compute_stats has returned for a cohort of one member that has no price:
\* no value for the price per area, one value for the other metrics.
C14_Witness ==
    /\ Returned
    /\ Len(estates) = 1
    /\ Contributed(estates, "price_psqm") = 0
    /\ stats["price_psqm"] = <<Zero, One>>
    /\ stats["avg_income"] = <<Real(<<1, 1>>), One>>

(***************************************************************************)
(* C15 as stated: every stddev compute_stats returns is non-zero.  Two     *)
(* members or more that contribute the same value to a metric get the      *)
(* sample deviation 0 from line 355.                                       *)
(***************************************************************************)
C15_StddevNeverZero ==
    Returned => \A metric \in DocumentedMetrics : stats[metric][2] # Zero

\* The score evaluate derives from the z-value of each metric.
ScoreOf ==
    [price_psqm |-> "price_score", transport |-> "transport_score",
     competition |-> "competition_score",
     infrastructure |-> "infrastructure_score",
     population_density |-> "demographic_score",
     avg_income |-> "income_score"]

AllEqual(arr) == \A i, j \in 1..Len(arr) : arr[i] = arr[j]

Evaluated == call.op = "evaluate" /\ call.outcome = "ok"

(***************************************************************************)
(* C15, amended.  A stddev returned by compute_stats is zero exactly when  *)
(* the cohort contributes two values or more to the metric and they are    *)
(* all equal; evaluate still returns its scores against such a baseline,   *)
(* the z-value of that metric being 0 and its score 50.                    *)
(***************************************************************************)
C15_ZeroOnlyWhenAllEqual ==
    /\ Returned =>
          \A metric \in DocumentedMetrics :
              stats[metric][2] = Zero <=>
                 /\ Contributed(estates, metric) >= 2
                 /\ AllEqual(Samples(estates, metric))
    /\ call.op = "evaluate" =>
          /\ call.outcome = "ok"
          /\ DOMAIN call.scores = { ScoreOf[metric] : metric \in DocumentedMetrics }
                                    \cup {"location_score", "composite_score"}
          /\ \A metric \in DocumentedMetrics :
                call.baselines[metric][2] = Zero =>
                   call.scores[ScoreOf[metric]] = Real(<<50, 1>>)

\* A member is evaluated against a baseline of two equal prices per area
\* that are not its own, and of unequal transport values.
C15_Witness ==
    /\ Evaluated
    /\ Len(estates) >= 2
    /\ call.baselines["price_psqm"][2] = Zero
    /\ call.baselines["price_psqm"][1] # Real(RawPrice(call.subject))
    /\ call.baselines["transport"][2] # Zero
    /\ call.scores["price_score"] = Real(<<50, 1>>)

\* The raw value of a member for a metric, as the documentation gives it:
\* price over area when both are there, the stops plus the features of
\* public transport, the restaurants, cafes and bars, the features of the
\* five infrastructure keys, and the two extra attributes, 0 when absent.
DocumentedRaw(m, metric) ==
    IF metric = "price_psqm" THEN RawPrice(m)
    ELSE IF metric = "transport" THEN RawTransport(m)
    ELSE IF metric = "competition" THEN RawCompetition(m)
    ELSE IF metric = "infrastructure" THEN RawInfra(m)
    ELSE IF metric = "population_density" THEN RawDemo(m)
    ELSE RawIncome(m)

(***************************************************************************)
(* C16.  Whenever evaluate returns for a member whose raw value of a       *)
(* metric equals the mean of the baseline, the score of that metric is     *)
(* exactly 50: for the four plain scores and for the negated ones, price   *)
(* and competition.                                                        *)
(***************************************************************************)
C16_MeanScoresFifty ==
    Evaluated =>
        \A metric \in DocumentedMetrics :
            Real(DocumentedRaw(call.subject, metric)) = call.baselines[metric][1]
               => call.scores[ScoreOf[metric]] = Real(<<50, 1>>)

\* A member sits at the mean of a cohort whose prices deviate (100 and 300
\* around its 200), and off the mean for competition.
C16_Witness ==
    /\ Evaluated
    /\ call.baselines["price_psqm"] = <<Real(<<20, 1>>), RSqrt(<<200, 1>>)>>
    /\ RawPrice(call.subject) = <<20, 1>>
    /\ call.scores["price_score"] = Real(<<50, 1>>)
    /\ call.scores["competition_score"] # Real(<<50, 1>>)

\* The prices per area the cohort contributes, in the order of the cohort.
PricesPerArea(cohort) ==
    LET priced == SelectSeq(cohort, LAMBDA m : m.price # 0 /\ m.total_area # 0)
    IN  [k \in 1..Len(priced) |-> Q(priced[k].price, priced[k].total_area)]

\* The sample deviation: the root of the squared deviations over n - 1.
SampleDeviation(arr) ==
    RSqrt(QDiv(SquaredDeviations(arr), <<Len(arr) - 1, 1>>))

\* 50 - 10 * (raw - mean) / stddev
NegatedScore(raw, pair) ==
    RSub(Real(<<50, 1>>),
         RScale(<<10, 1>>, RDiv(RSub(Real(raw), pair[1]), pair[2])))

ExampleCohort ==
    \E c \in Cohorts :
        /\ estates = c
        /\ PricesPerArea(c) = << <<10, 1>>, <<20, 1>>, <<30, 1>> >>

(***************************************************************************)
(* C17.  The baseline of the price per area of a cohort of two priced      *)
(* members or more is its mean and its sample (n - 1) deviation, (20, 10)  *)
(* for the prices 100, 200, 300 over the area 10; against a baseline whose *)
(* stddev is not zero the price_score is 50 - 10 (psqm - mean) / stddev,   *)
(* 60 for the psqm 10 against (20, 10); and a member with a strictly       *)
(* lower psqm never has a lower price_score against the same baseline.     *)
(***************************************************************************)
C17_PriceScore ==
    /\ Returned =>
          /\ Len(PricesPerArea(estates)) >= 2 =>
                stats["price_psqm"] =
                   << Real(Mean(PricesPerArea(estates))),
                      SampleDeviation(PricesPerArea(estates)) >>
          /\ ExampleCohort =>
                stats["price_psqm"] = << Real(<<20, 1>>), Real(<<10, 1>>) >>
    /\ Evaluated =>
          /\ call.baselines["price_psqm"][2] # Zero =>
                call.scores["price_score"] =
                   NegatedScore(DocumentedRaw(call.subject, "price_psqm"),
                                call.baselines["price_psqm"])
          /\ (/\ call.baselines["price_psqm"] =
                    << Real(<<20, 1>>), Real(<<10, 1>>) >>
              /\ DocumentedRaw(call.subject, "price_psqm") = <<10, 1>>)
                => call.scores["price_score"] = Real(<<60, 1>>)
          /\ \A m \in Members :
                QLess(DocumentedRaw(m, "price_psqm"),
                      DocumentedRaw(call.subject, "price_psqm"))
                   => RLeq(call.scores["price_score"],
                           Evaluate(m, call.baselines,
                                    call.venue_type)["price_score"])

\* The example of the documentation: the cohort 100/10, 200/10, 300/10 and
\* a record of psqm 10 scored 60, strictly above a member of psqm 20.
C17_Witness ==
    /\ Evaluated
    /\ ExampleCohort
    /\ call.baselines["price_psqm"] = << Real(<<20, 1>>), Real(<<10, 1>>) >>
    /\ DocumentedRaw(call.subject, "price_psqm") = <<10, 1>>
    /\ call.scores["price_score"] = Real(<<60, 1>>)
    /\ \E m \in Members :
          /\ DocumentedRaw(m, "price_psqm") = <<20, 1>>
          /\ Evaluate(m, call.baselines, call.venue_type)["price_score"]
                = Real(<<50, 1>>)

\* The table of the documentation, in tenths: price and location, then
\* transport, competition, infrastructure and demo.
DocumentedWeights ==
    [fast_food |-> <<5, 5, 5, 2, 2, 1>>,
     premium   |-> <<3, 7, 2, 3, 3, 2>>,
     casual    |-> <<4, 6, 3, 3, 3, 1>>,
     standard  |-> <<4, 6, 4, 3, 3, 0>>]

\* weight * z, from the weight in tenths and the score 50 + 10 z: the tenth
\* of z is the hundredth of the score's distance from 50.
Weighted(tenths, score) ==
    RScale(Q(tenths, 100), RSub(score, Real(<<50, 1>>)))

\* 50 + 10 * (the weighted sum of the z-values of the four scores)
DocumentedLocation(scores, w) ==
    RAdd(Real(<<50, 1>>),
         RScale(<<10, 1>>,
                RAdd(RAdd(Weighted(w[3], scores["transport_score"]),
                          Weighted(w[4], scores["competition_score"])),
                     RAdd(Weighted(w[5], scores["infrastructure_score"]),
                          Weighted(w[6], scores["demographic_score"])))))

DocumentedComposite(scores, w) ==
    RAdd(Real(<<50, 1>>),
         RScale(<<10, 1>>,
                RAdd(Weighted(w[1], scores["price_score"]),
                     Weighted(w[2], scores["location_score"]))))

\* The mappings of groups of the members.
Surroundings == { m.grouped : m \in Members }

\* The subject in other surroundings.
Moved(m, grouped) == [m EXCEPT !.grouped = grouped]

Competitors(grouped) == GroupCount(grouped, CompetitionPrefixes)

RLess(x, y) == x # y /\ RLeq(x, y)

\* g has the features of the subject's surroundings and competitors more,
\* nothing else: each of them counts for competition and, its label
\* starting with amenity=, for infrastructure.
CompetitorsAdded(m, g) ==
    /\ Competitors(g) > Competitors(m.grouped)
    /\ RawTransport(Moved(m, g)) = RawTransport(m)
    /\ RawInfra(Moved(m, g))[1] - RawInfra(m)[1] =
          Competitors(g) - Competitors(m.grouped)

(***************************************************************************)
(* C18 as stated, in its last part: a record with more competitors around  *)
(* it never has a higher location_score or composite_score than the same   *)
(* record without them.  A competitor is also a feature of the             *)
(* infrastructure, whose z-value enters with a positive weight.            *)
(***************************************************************************)
C18_CompetitorsNeverRaise ==
    Evaluated =>
        \A g \in Surroundings :
            CompetitorsAdded(call.subject, g) =>
                LET more == Evaluate(Moved(call.subject, g), call.baselines,
                                     call.venue_type)
                IN  /\ ~RLess(call.scores["location_score"],
                              more["location_score"])
                    /\ ~RLess(call.scores["composite_score"],
                              more["composite_score"])

(***************************************************************************)
(* C18, amended.  For each of the four profiles the location_score is      *)
(* 50 + 10 * location_z and the composite_score 50 + 10 * composite_z,     *)
(* with location_z and composite_z the weighted sums of the documented     *)
(* table over the z-values of the scores returned, the competition one     *)
(* being the negated z-score of the count of competitors; and a record     *)
(* with more competitors, the same transport and the same infrastructure   *)
(* count never has a higher location_score or composite_score.             *)
(***************************************************************************)
C18_WeightedSums ==
    Evaluated =>
        /\ call.venue_type \in DOMAIN DocumentedWeights
        /\ call.scores["location_score"] =
              DocumentedLocation(call.scores,
                                 DocumentedWeights[call.venue_type])
        /\ call.scores["composite_score"] =
              DocumentedComposite(call.scores,
                                  DocumentedWeights[call.venue_type])
        /\ call.baselines["competition"][2] # Zero =>
              call.scores["competition_score"] =
                 NegatedScore(DocumentedRaw(call.subject, "competition"),
                              call.baselines["competition"])
        /\ \A g \in Surroundings :
              (/\ Competitors(g) > Competitors(call.subject.grouped)
               /\ RawTransport(Moved(call.subject, g)) =
                     RawTransport(call.subject)
               /\ RawInfra(Moved(call.subject, g)) = RawInfra(call.subject))
                 => LET more == Evaluate(Moved(call.subject, g),
                                         call.baselines, call.venue_type)
                    IN  /\ RLeq(more["location_score"],
                                call.scores["location_score"])
                        /\ RLeq(more["composite_score"],
                                call.scores["composite_score"])

\* A record with a cafe and a shop around it is scored against a cohort
\* whose competition deviates; with two cafes instead its location_score
\* and composite_score are strictly lower.
C18_Witness ==
    /\ Evaluated
    /\ call.baselines["competition"][2] # Zero
    /\ call.baselines["transport"][2] # Zero
    /\ call.baselines["infrastructure"][2] # Zero
    /\ Competitors(call.subject.grouped) = 1
    /\ \E g \in Surroundings :
          /\ Competitors(g) = 2
          /\ RawInfra(Moved(call.subject, g)) = RawInfra(call.subject)
          /\ RLess(Evaluate(Moved(call.subject, g), call.baselines,
                            call.venue_type)["location_score"],
                   call.scores["location_score"])
          /\ RLess(Evaluate(Moved(call.subject, g), call.baselines,
                            call.venue_type)["composite_score"],
                   call.scores["composite_score"])

\* The extra attributes without the key, and with another value for it.
Dropped(extra, key) == [k \in DOMAIN extra \ {key} |-> extra[k]]

ExtraVariations(extra, key) ==
    { Dropped(extra, key), (key :> 5) @@ Dropped(extra, key) }

\* Other baseline pairs for one metric.
PairVariations == { <<Zero, One>>, <<Real(<<2, 1>>), Real(<<3, 1>>)>> }

\* The scores of the subject with other extra attributes, against baselines
\* that differ in the pair of the metric alone.
Varied(key, extra, pair) ==
    Evaluate([call.subject EXCEPT !.extra_attributes = extra],
             [call.baselines EXCEPT ![key] = pair], call.venue_type)

SameExcept(scores, others, names) ==
    \A name \in DOMAIN scores \ names : scores[name] = others[name]

(***************************************************************************)
(* C19.  Two calls of evaluate that agree on everything but avg_income     *)
(* (of the record and of the baselines) return the same scores except the  *)
(* income_score, for every profile: the same location_score and            *)
(* composite_score.  For the profile "standard", two calls that agree on   *)
(* everything but population_density return the same scores except the     *)
(* demographic_score.                                                      *)
(***************************************************************************)
C19_IncomeAndDemoApart ==
    Evaluated =>
        /\ \A extra \in ExtraVariations(call.subject.extra_attributes,
                                        "avg_income"),
              pair \in PairVariations :
                SameExcept(call.scores, Varied("avg_income", extra, pair),
                           {"income_score"})
        /\ call.venue_type = "standard" =>
              \A extra \in ExtraVariations(call.subject.extra_attributes,
                                           "population_density"),
                 pair \in PairVariations :
                   SameExcept(call.scores,
                              Varied("population_density", extra, pair),
                              {"demographic_score"})

\* A "standard" evaluation whose demographic_score and income_score do
\* change with the inputs varied, the other six scores staying.
C19_Witness ==
    /\ Evaluated
    /\ call.venue_type = "standard"
    /\ call.scores["location_score"] # Real(<<50, 1>>)
    /\ \E extra \in ExtraVariations(call.subject.extra_attributes,
                                    "population_density") :
          Varied("population_density", extra, <<Zero, One>>)["demographic_score"]
             # call.scores["demographic_score"]
    /\ \E extra \in ExtraVariations(call.subject.extra_attributes,
                                    "avg_income") :
          Varied("avg_income", extra, <<Zero, One>>)["income_score"]
             # call.scores["income_score"]

(***************************************************************************)
(* C20.  evaluate fails if and only if the venue type is not one of the    *)
(* four profiles, whatever the record: also one on which no acquisition    *)
(* has run; when it returns it returns the eight scores and leaves the     *)
(* record and the baselines as they were.  The code breaks it: a record    *)
(* that never got its groups has no nearby_grouped_objects, and line 256   *)
(* raises AttributeError for every venue type.                             *)
(***************************************************************************)
C20_FailsOnlyOnUnknownVenue ==
    [][call'.op = "evaluate" =>
          /\ call'.outcome # "ok" <=> call'.venue_type \notin DOMAIN DocumentedWeights
          /\ call'.outcome = "ok" =>
                DOMAIN call'.scores =
                   { ScoreOf[metric] : metric \in DocumentedMetrics }
                      \cup {"location_score", "composite_score"}
          /\ UNCHANGED << recordVars, stats, cache >>]_vars

\* The labels of the features of a list, in the order of the list.
LabelsOf(stored) == [i \in 1..Len(stored) |-> DocumentedLabel(stored[i].tags)]

\* The features of the list that carry the label, in the order of the list.
Labelled(stored, label) ==
    SelectSeq(stored, LAMBDA obj : DocumentedLabel(obj.tags) = label)

\* How many times the feature occurs in the groups.
Occurrences(groups, obj) ==
    Cardinality({ gi \in (1..Len(groups)) \X (1..MaxFeatures + 1) :
                    /\ gi[2] <= Len(groups[gi[1]].objects)
                    /\ groups[gi[1]].objects[gi[2]] = obj })

RECURSIVE SizesFrom(_, _)
SizesFrom(groups, g) ==
    IF g > Len(groups) THEN 0
    ELSE Len(groups[g].objects) + SizesFrom(groups, g + 1)

(***************************************************************************)
(* C21.  The groups of a record partition its stored list: every stored    *)
(* feature is once in the group of its label and nowhere else, no group    *)
(* is empty, the sizes add up to the length of the list, a group holds     *)
(* its features in the order of the list, and the groups come in the       *)
(* order in which their labels first occur in the list (nodes, then ways,  *)
(* then relations).                                                        *)
(***************************************************************************)
C21_GroupsPartitionStored ==
    \A r \in Records :
       LET groups == nearby_grouped_objects[r]
           stored == nearby_objects[r]
       IN  /\ \A i \in 1..Len(stored) : Occurrences(groups, stored[i]) = 1
           /\ \A g \in 1..Len(groups) : groups[g].objects # << >>
           /\ SizesFrom(groups, 1) = Len(stored)
           /\ \A g \in 1..Len(groups) :
                 groups[g].objects = Labelled(stored, groups[g].label)
           /\ [g \in 1..Len(groups) |-> groups[g].label] =
                 FirstOccurrences(LabelsOf(stored))
           /\ \A i, j \in 1..Len(stored) :
                 (/\ i < j
                  /\ stored[i].type # stored[j].type)
                    => /\ stored[i].type # "relation"
                       /\ stored[j].type # "node"

\* A successful fetch stored a bakery and then a cafe: two groups, the
\* bakery's first although "amenity=cafe" sorts before "shop=bakery".
C21_Witness ==
    /\ call.op = "fetch_nearby_objects" /\ call.outcome = "ok"
    /\ Len(nearby_objects[call.rec]) = 2
    /\ nearby_objects[call.rec][1].tags = TagShopBuilding
    /\ nearby_objects[call.rec][2].tags = TagAmenityCafe
    /\ Len(nearby_grouped_objects[call.rec]) = 2
    /\ nearby_grouped_objects[call.rec][1].label =
          <<"s","h","o","p","=","b","a","k","e","r","y">>
    /\ nearby_grouped_objects[call.rec][2].objects =
          << nearby_objects[call.rec][2] >>

GeocodingFailures == {"InvalidInput", "NoMatch", "ServiceUnavailable"}

(***************************************************************************)
(* C22.  Inside compute_stats the external calls are made one member at a  *)
(* time, in the order of the cohort: no other operation runs before the    *)
(* return, each pass is for the member after the one of the pass before,   *)
(* starting with the first.  A pass issues geocoding lookups only for a    *)
(* member without coords; it issues at most one spatial query, none when   *)
(* the geocoding failed, and for a member that had no coords only once     *)
(* its last lookup has matched, at the place that lookup returned.         *)
(***************************************************************************)
C22_OneMemberAtATime ==
    [][/\ (pc = "compute_stats" \/ pc' = "compute_stats")
             => call'.op = "compute_stats"
       /\ MemberStep =>
             LET i == call'.rec
                 asked == call'.lookups
             IN  /\ pc = "compute_stats"
                 /\ i = est
                 /\ est' = i + 1
                 /\ IF call.outcome = "called" THEN i = 1
                    ELSE call.op = "compute_stats" /\ i = call.rec + 1
                 /\ call'.queries \in {0, 1}
                 /\ asked # << >> => coords[i] = None
                 /\ coords[i] # None =>
                       call'.outcome \notin GeocodingFailures
                 /\ call'.outcome \in GeocodingFailures =>
                       call'.queries = 0
                 /\ (call'.queries = 1 /\ coords[i] = None) =>
                       /\ asked # << >>
                       /\ call'.oracle[Len(asked)].status = "match"
                       /\ \A k \in 1..(Len(asked) - 1) :
                             call'.oracle[k].status = "no match"
                       /\ coords'[i] =
                             << call'.oracle[Len(asked)].latitude,
                                call'.oracle[Len(asked)].longitude >>]_vars

\* The second member had no coords: its second lookup matched, and its
\* spatial query was issued; the first member, without coords and without
\* an address, had failed before any call.
C22_Witness ==
    /\ call.op = "compute_stats"
    /\ call.rec = 2
    /\ call.outcomes[1] = "InvalidInput"
    /\ Len(call.lookups) = 2
    /\ call.oracle[2].status = "match"
    /\ call.queries = 1
    /\ coords[2] # None

\* What a step leaves of record r.
SameRecord(r) ==
    /\ coords'[r] = coords[r]
    /\ nearby_objects'[r] = nearby_objects[r]
    /\ has_grouped'[r] = has_grouped[r]
    /\ nearby_grouped_objects'[r] = nearby_grouped_objects[r]

(***************************************************************************)
(* C23.  A pass of compute_stats attempts the enrichment of its member     *)
(* exactly when the member's mapping of groups is absent or empty.  For a  *)
(* member whose mapping is not empty it issues no lookup and no query and  *)
(* leaves coords, stored list and groups as they were; no pass touches     *)
(* another record than its own.  So a later compute_stats queries again    *)
(* only the members whose mapping is still empty.                          *)
(***************************************************************************)
C23_EnrichesOnlyEmpty ==
    [][MemberStep =>
          LET i == call'.rec
              filled == has_grouped[i] /\ nearby_grouped_objects[i] # << >>
          IN  /\ filled =>
                    /\ call'.outcome = "skipped"
                    /\ call'.lookups = << >>
                    /\ call'.queries = 0
                    /\ SameRecord(i)
              /\ ~filled =>
                    /\ call'.outcome \in MemberFailures \cup {"ok"}
                    /\ \/ call'.queries = 1
                       \/ call'.lookups # << >>
                       \/ (/\ call'.outcome = "InvalidInput"
                           /\ coords[i] = None /\ address[i] = << >>)
              /\ \A r \in Records \ {i} : SameRecord(r)]_vars

\* compute_stats skipped the first member, which has its groups, and
\* queried again for the second, geocoded earlier and still without
\* groups.
C23_Witness ==
    /\ call.op = "compute_stats"
    /\ call.rec = 2
    /\ call.outcomes[1] = "skipped"
    /\ nearby_grouped_objects[1] # << >>
    /\ geocoded[2]
    /\ call.lookups = << >>
    /\ call.queries = 1
    /\ call.outcome = "ok"
    /\ nearby_grouped_objects[2] = << >>

\* The counts of the documentation, restated: the number of features in the
\* groups whose label starts with one of the prefixes.
DocumentedCount(grouped, prefixes) ==
    Cardinality(UNION {
        { <<g, i>> : i \in 1..Len(grouped[g].objects) } :
           g \in { h \in 1..Len(grouped) :
                     \E t \in prefixes : OccursAt(grouped[h].label, t, 1) } })

DocumentedStops(m) ==
    IF "stops" \in DOMAIN m.transport_nearby
    THEN m.transport_nearby["stops"] ELSE 0

DocumentedValue(m, metric) ==
    IF metric = "transport"
    THEN DocumentedStops(m)
           + DocumentedCount(m.grouped,
                { <<"p","u","b","l","i","c","_","t","r","a","n","s","p","o","r","t">> })
    ELSE IF metric = "competition"
    THEN DocumentedCount(m.grouped,
           { <<"a","m","e","n","i","t","y","=","r","e","s","t","a","u","r","a","n","t">>,
             <<"a","m","e","n","i","t","y","=","c","a","f","e">>,
             <<"a","m","e","n","i","t","y","=","b","a","r">> })
    ELSE DocumentedCount(m.grouped,
           { <<"s","h","o","p","=">>, <<"o","f","f","i","c","e","=">>,
             <<"l","e","i","s","u","r","e","=">>,
             <<"a","m","e","n","i","t","y","=">>,
             <<"t","o","u","r","i","s","m","=">> })

DocumentedValues(cohort, metric) ==
    [k \in 1..Len(cohort) |-> <<DocumentedValue(cohort[k], metric), 1>>]

\* 50 + 10 * (raw - mean) / stddev
PlainScore(raw, pair) ==
    RAdd(Real(<<50, 1>>),
         RScale(<<10, 1>>, RDiv(RSub(Real(raw), pair[1]), pair[2])))

(***************************************************************************)
(* C24.  compute_stats takes for every member, and evaluate for its        *)
(* record, the documented transport, competition and infrastructure: the   *)
(* baselines are the mean and deviation of the documented values of the    *)
(* members, and the three scores are those of the documented value of the  *)
(* record against the baseline (the competition one negated), where the    *)
(* stddev is not zero.  The competition of a member is never above its     *)
(* infrastructure.                                                         *)
(***************************************************************************)
C24_SameCountsBothSides ==
    /\ Returned =>
          \A metric \in PoiMetrics :
              /\ Len(estates) >= 1 =>
                    stats[metric][1] =
                       Real(Mean(DocumentedValues(estates, metric)))
              /\ Len(estates) >= 2 =>
                    stats[metric][2] =
                       SampleDeviation(DocumentedValues(estates, metric))
    /\ Evaluated =>
          /\ \A metric \in PoiMetrics :
                call.baselines[metric][2] # Zero =>
                   call.scores[ScoreOf[metric]] =
                      IF metric = "competition"
                      THEN NegatedScore(
                              <<DocumentedValue(call.subject, metric), 1>>,
                              call.baselines[metric])
                      ELSE PlainScore(
                              <<DocumentedValue(call.subject, metric), 1>>,
                              call.baselines[metric])
          /\ DocumentedValue(call.subject, "competition")
                <= DocumentedValue(call.subject, "infrastructure")
    /\ \A k \in 1..Len(estates) :
          DocumentedValue(estates[k], "competition")
             <= DocumentedValue(estates[k], "infrastructure")

\* The record with a stop of its own, a cafe and a bar is scored against
\* the baselines of a cohort of which it is a member, each of the three
\* with a deviation: transport 1, competition 2, infrastructure 2.
C24_Witness ==
    /\ Evaluated
    /\ \E k \in 1..Len(estates) : estates[k] = call.subject
    /\ \A metric \in PoiMetrics : call.baselines[metric][2] # Zero
    /\ DocumentedValue(call.subject, "transport") = 1
    /\ DocumentedStops(call.subject) = 1
    /\ DocumentedValue(call.subject, "competition") = 2
    /\ DocumentedValue(call.subject, "infrastructure") = 2
    /\ Len(call.subject.grouped) = 2

\* The member without its area.
Unpriced(m) == [m EXCEPT !.total_area = 0]

\* The cohort with the k-th member without its area.
WithUnpriced(cohort, k) ==
    [i \in 1..Len(cohort) |-> IF i = k THEN Unpriced(cohort[i]) ELSE cohort[i]]

\* The baseline of a list of prices per area: the defaults 0 and 1, the
\* mean and the sample deviation.
PriceBaseline(prices) ==
    << IF Len(prices) = 0 THEN Zero ELSE Real(Mean(prices)),
       IF Len(prices) <= 1 THEN One ELSE SampleDeviation(prices) >>

\* 50 + 10 * mean / stddev
UnpricedScore(pair) ==
    RAdd(Real(<<50, 1>>), RScale(<<10, 1>>, RDiv(pair[1], pair[2])))

(***************************************************************************)
(* C25.  A member without a price or without an area (None or 0) gives no  *)
(* value to the baseline of the price per area: the baseline is that of    *)
(* the other members' prices, also when a priced member loses its area.    *)
(* evaluate scores such a record with the raw price 0: its price_score is  *)
(* 50 + 10 * mean / stddev where the stddev is not zero, and never below   *)
(* 50, the score of a priced record at the mean.                           *)
(***************************************************************************)
C25_UnpricedMember ==
    /\ Returned =>
          /\ stats["price_psqm"] = PriceBaseline(PricesPerArea(estates))
          /\ Len(PricesPerArea(estates)) = Cardinality(Priced(estates))
          /\ \A k \in 1..Len(estates) :
                ComputeStats(WithUnpriced(estates, k))["price_psqm"] =
                   PriceBaseline(PricesPerArea(Without(estates, k)))
    /\ Evaluated =>
          \A m \in {call.subject, Unpriced(call.subject)} :
              (m.price = 0 \/ m.total_area = 0) =>
                 LET score == Evaluate(m, call.baselines,
                                       call.venue_type)["price_score"]
                 IN  /\ m = call.subject => score = call.scores["price_score"]
                     /\ call.baselines["price_psqm"][2] # Zero =>
                           score = UnpricedScore(call.baselines["price_psqm"])
                     /\ call.baselines["price_psqm"][2] = Zero =>
                           score = Real(<<50, 1>>)
                     /\ RLeq(Real(<<50, 1>>), score)

\* The member without a price is scored against the baseline of its
\* cohort, which the two priced members alone make: mean 15, deviation
\* sqrt(50), a price_score of 50 + 150 / sqrt(50), above 50.
C25_Witness ==
    /\ Evaluated
    /\ call.subject.price = 0
    /\ \E k \in 1..Len(estates) : estates[k] = call.subject
    /\ call.baselines["price_psqm"] = << Real(<<15, 1>>), RSqrt(<<50, 1>>) >>
    /\ call.scores["price_score"] =
          UnpricedScore(<< Real(<<15, 1>>), RSqrt(<<50, 1>>) >>)
    /\ RLess(Real(<<50, 1>>), call.scores["price_score"])

\* weight * z of the score, or nothing for the score left out.
TermUnless(left_out, name, tenths, scores) ==
    IF name = left_out THEN Zero ELSE Weighted(tenths, scores[name])

\* The location and composite scores with one score left out of the sums.
LocationWithout(left_out, scores, w) ==
    RAdd(Real(<<50, 1>>),
         RScale(<<10, 1>>,
                RAdd(RAdd(TermUnless(left_out, "transport_score", w[3], scores),
                          TermUnless(left_out, "competition_score", w[4], scores)),
                     RAdd(TermUnless(left_out, "infrastructure_score", w[5], scores),
                          TermUnless(left_out, "demographic_score", w[6], scores)))))

CompositeWithout(left_out, scores, w) ==
    RAdd(Real(<<50, 1>>),
         RScale(<<10, 1>>,
                RAdd(TermUnless(left_out, "price_score", w[1], scores),
                     RScale(Q(w[2], 100),
                            RSub(LocationWithout(left_out, scores, w),
                                 Real(<<50, 1>>))))))

(***************************************************************************)
(* C26.  evaluate returns for every record with groups and every           *)
(* baseline: it never divides by a stddev of zero.  Against a baseline     *)
(* whose stddev is zero the score of that metric is exactly 50 for every   *)
(* record, whatever its raw value, and the location and composite scores   *)
(* are the weighted sums without that metric.                              *)
(***************************************************************************)
C26_ZeroStddevScoresFifty ==
    call.op = "evaluate" =>
        /\ call.outcome = "ok"
        /\ \A m \in Members :
              LET scores == Evaluate(m, call.baselines, call.venue_type)
                  w == DocumentedWeights[call.venue_type]
              IN  \A metric \in DocumentedMetrics :
                     call.baselines[metric][2] = Zero =>
                        /\ scores[ScoreOf[metric]] = Real(<<50, 1>>)
                        /\ scores["location_score"] =
                              LocationWithout(ScoreOf[metric], scores, w)
                        /\ scores["composite_score"] =
                              CompositeWithout(ScoreOf[metric], scores, w)
        /\ \A metric \in DocumentedMetrics :
              call.baselines[metric][2] = Zero =>
                 call.scores[ScoreOf[metric]] = Real(<<50, 1>>)

\* Every member of the cohort has the same count of competitors, not the
\* one of the record scored: its competition_score is 50 all the same, and
\* its location_score is not.
C26_Witness ==
    /\ Evaluated
    /\ Len(estates) >= 2
    /\ call.baselines["competition"][2] = Zero
    /\ call.baselines["competition"][1] #
          Real(DocumentedRaw(call.subject, "competition"))
    /\ call.scores["competition_score"] = Real(<<50, 1>>)
    /\ call.scores["location_score"] # Real(<<50, 1>>)

=============================================================================
